---- MODULE Spec2Model ----
(***************************************************************************)
(* Verification model of the userbot pipeline of devops-demo               *)
(* (UserbotService: idempotency gate, relevance filter, field merge,       *)
(* outreach dispatcher) together with the vacancy table and the Redis      *)
(* marker store it talks to.                                               *)
(*                                                                         *)
(* Strings are sequences of one-character strings, so that lower-casing,   *)
(* splitting and regular-expression scans are computed, not assumed.       *)
(***************************************************************************)
EXTENDS Integers, Sequences, FiniteSets, TLC

VARIABLES
    cfg,        \* the configuration read by the constructor (never changes)
    now,        \* wall clock, seconds
    redis,      \* the Redis keyspace: key -> expiry time
    vacancies,  \* the rows of table "vacancies"
    nextId,     \* source of fresh primary keys
    stats,      \* UserbotService.stats
    pc,         \* per invocation of processApiMessage: the await it is at
    cur,        \* per invocation: the post it was called with
    loc,        \* per invocation: its local variables and what it observed
    lastOk,     \* per post: when markProcessedOnce last created its marker
    feed,       \* the posts the channel-event source holds (never changes)
    arg,        \* input of the pure function under evaluation (a record)
    ret         \* <<>> while not evaluated, <<value>> afterwards

fnVars == <<arg, ret>>

pipeVars == <<cfg, now, redis, vacancies, nextId, stats, pc, cur, loc, lastOk, feed>>

vars == <<cfg, now, redis, vacancies, nextId, stats, pc, cur, loc, lastOk, feed,
          arg, ret>>

(***************************************************************************)
(* Characters and strings                                                  *)
(***************************************************************************)
UpperLetters == <<"A","B","C","D","E","F","G","H","I","J","K","L","M",
                  "N","O","P","Q","R","S","T","U","V","W","X","Y","Z","U0414">>

LowerLetters == <<"a","b","c","d","e","f","g","h","i","j","k","l","m",
                  "n","o","p","q","r","s","t","u","v","w","x","y","z","U0434">>

Digits == {"0","1","2","3","4","5","6","7","8","9"}

Range(s) == {s[i] : i \in 1..Len(s)}

\* U0414 / U0434 stand for the Cyrillic capital / small letter DE.
CyrillicChars == {"U0414", "U0434"}

LatinLetters == (Range(UpperLetters) \cup Range(LowerLetters)) \ CyrillicChars

\* String.prototype.toLowerCase, one character
LowerChar(c) ==
    IF \E i \in 1..Len(UpperLetters) : UpperLetters[i] = c
    THEN LowerLetters[CHOOSE i \in 1..Len(UpperLetters) : UpperLetters[i] = c]
    ELSE c

\* String.prototype.toLowerCase
toLowerCase(s) == [i \in 1..Len(s) |-> LowerChar(s[i])]

\* the regex class \w (with \d and _ inside it)
WordChars == LatinLetters \cup Digits \cup {"_"}

\* the regex class \s, as far as the model's alphabet has it
SpaceChars == {" ", "\n"}

\* String.prototype.startsWith
startsWith(s, p) == Len(s) >= Len(p) /\ SubSeq(s, 1, Len(p)) = p

\* String.prototype.trim
RECURSIVE trim(_)
trim(s) ==
    IF s = <<>> THEN s
    ELSE IF Head(s) \in SpaceChars THEN trim(Tail(s))
    ELSE IF s[Len(s)] \in SpaceChars THEN trim(SubSeq(s, 1, Len(s) - 1))
    ELSE s

\* String.prototype.split on a one-character separator class
RECURSIVE splitOn(_, _, _)
splitOn(s, seps, acc) ==
    IF s = <<>> THEN <<acc>>
    ELSE IF Head(s) \in seps THEN <<acc>> \o splitOn(Tail(s), seps, <<>>)
    ELSE splitOn(Tail(s), seps, Append(acc, Head(s)))

\* the end of the greedy run of class characters that starts at position i
RECURSIVE RunEnd(_, _, _)
RunEnd(s, i, class) ==
    IF i < Len(s) /\ s[i + 1] \in class THEN RunEnd(s, i + 1, class) ELSE i

\* text.match(/<p><class>+/g): every non-overlapping match, left to right
RECURSIVE matchPrefixed(_, _, _, _)
matchPrefixed(s, i, p, class) ==
    IF i > Len(s) THEN <<>>
    ELSE IF s[i] = p /\ i < Len(s) /\ s[i + 1] \in class
         THEN LET j == RunEnd(s, i + 1, class)
              IN  <<SubSeq(s, i, j)>> \o matchPrefixed(s, j + 1, p, class)
         ELSE matchPrefixed(s, i + 1, p, class)

\* Array.prototype.filter / map over a sequence
RECURSIVE SelectNonEmpty(_)
SelectNonEmpty(q) ==
    IF q = <<>> THEN <<>>
    ELSE IF Head(q) = <<>> THEN SelectNonEmpty(Tail(q))
    ELSE <<Head(q)>> \o SelectNonEmpty(Tail(q))

(***************************************************************************)
(* Configuration lists and the relevance filter                            *)
(***************************************************************************)
\* parseListFromConfig: split on , ; newline, trim, drop empty items
parseListFromConfig(raw) ==
    IF raw = <<>> THEN <<>>
    ELSE LET parts == splitOn(raw, {",", ";", "\n"}, <<>>)
         IN  SelectNonEmpty([i \in 1..Len(parts) |-> trim(parts[i])])

\* constructor: this.keywords = parseListFromConfig(...).map(toLowerCase)
keywordsOf(raw) ==
    LET l == parseListFromConfig(raw) IN [i \in 1..Len(l) |-> toLowerCase(l[i])]

\* the class [\w\dЀ-ӿ]
TagChars == WordChars \cup CyrillicChars

\* hasKeywordMatch accepting a hashtag that merely begins with the keyword
hasKeywordMatchSubstring(keywords, text) ==
    LET hashtags == matchPrefixed(text, 1, "#", TagChars)
        lowerHashtags == {toLowerCase(hashtags[i]) : i \in 1..Len(hashtags)}
    IN  \E k \in 1..Len(keywords) :
            LET keyword == keywords[k]
                hashtagKeyword == IF startsWith(keyword, <<"#">>)
                                  THEN toLowerCase(keyword)
                                  ELSE <<"#">> \o toLowerCase(keyword)
            IN  \E h \in lowerHashtags :
                    Len(h) >= Len(hashtagKeyword)
                    /\ SubSeq(h, 1, Len(hashtagKeyword)) = hashtagKeyword

hasKeywordMatch(keywords, text) ==
    LET hashtags == matchPrefixed(text, 1, "#", TagChars)
        lowerHashtags == {toLowerCase(hashtags[i]) : i \in 1..Len(hashtags)}
    IN  \E k \in 1..Len(keywords) :
            LET keyword == keywords[k]
                hashtagKeyword == IF startsWith(keyword, <<"#">>)
                                  THEN toLowerCase(keyword)
                                  ELSE <<"#">> \o toLowerCase(keyword)
            IN  hashtagKeyword \in lowerHashtags

\* the keyword gate of processApiMessage: FALSE is skip(no-keyword)
passesKeywordGate(keywords, text) ==
    ~ (Len(keywords) > 0 /\ ~ hasKeywordMatch(keywords, text))

(***************************************************************************)
(* Mentions, links and send targets                                        *)
(***************************************************************************)
\* Array.from(new Set(q)): first occurrences, in order
RECURSIVE dedupe(_, _)
dedupe(q, seen) ==
    IF q = <<>> THEN <<>>
    ELSE IF Head(q) \in seen THEN dedupe(Tail(q), seen)
    ELSE <<Head(q)>> \o dedupe(Tail(q), seen \cup {Head(q)})

RECURSIVE filterOut(_, _)
filterOut(q, drop) ==
    IF q = <<>> THEN <<>>
    ELSE IF Head(q) \in drop THEN filterOut(Tail(q), drop)
    ELSE <<Head(q)>> \o filterOut(Tail(q), drop)

excludedMentions ==
    { <<"@","d","e","v","o","p","s","_","j","o","b","s">>,
      <<"@","d","e","v","o","p","s","_","j","o","b","s","_","f","e","e","d">> }

extractMentions(text) ==
    LET matches == matchPrefixed(text, 1, "@", WordChars)
        mentions == dedupe([i \in 1..Len(matches) |-> toLowerCase(matches[i])], {})
    IN  filterOut(mentions, excludedMentions)

\* text.match(/https?:\/\/\S+/gi)
RECURSIVE matchLinks(_, _)
matchLinks(s, i) ==
    IF i > Len(s) THEN <<>>
    ELSE LET hasHttp == i + 3 <= Len(s)
                        /\ toLowerCase(SubSeq(s, i, i + 3)) = <<"h","t","t","p">>
             j == IF hasHttp /\ i + 4 <= Len(s) /\ LowerChar(s[i + 4]) = "s"
                  THEN i + 5 ELSE i + 4
             hasSep == hasHttp /\ j + 2 <= Len(s)
                       /\ SubSeq(s, j, j + 2) = <<":","/","/">>
             ok == hasSep /\ j + 3 <= Len(s) /\ s[j + 3] \notin SpaceChars
         IN  IF ok
             THEN LET e == RunEnd(s, j + 3, Range(s) \ SpaceChars)
                  IN  <<SubSeq(s, i, e)>> \o matchLinks(s, e + 1)
             ELSE matchLinks(s, i + 1)

extractLinks(text) == dedupe(matchLinks(text, 1), {})

\* index of the first character of s, from position i on, that is in stop
RECURSIVE firstIn(_, _, _)
firstIn(s, i, stop) ==
    IF i > Len(s) THEN Len(s) + 1
    ELSE IF s[i] \in stop THEN i ELSE firstIn(s, i + 1, stop)

\* new URL(l) for an http(s) link without userinfo or port: host, pathname
urlOf(l) ==
    LET a == firstIn(l, 1, {":"}) + 3
        b == firstIn(l, a, {"/", "?", "#"})
        c == firstIn(l, b, {"?", "#"})
    IN  [hostname |-> toLowerCase(SubSeq(l, a, b - 1)),
         pathname |-> IF b <= Len(l) /\ l[b] = "/" THEN SubSeq(l, b, c - 1)
                      ELSE <<"/">>]

hostTme == <<"t",".","m","e">>

hostTelegramMe == <<"t","e","l","e","g","r","a","m",".","m","e">>

\* one element of digest.links mapped to a handle, <<>> for undefined
linkTarget(l) ==
    LET url == urlOf(l)
        username == IF startsWith(url.pathname, <<"/">>)
                    THEN Tail(url.pathname) ELSE url.pathname
    IN  IF url.hostname \in {hostTme, hostTelegramMe}
           /\ username # <<>>
           /\ \A i \in 1..Len(username) : username[i] \in WordChars
        THEN toLowerCase(<<"@">> \o username)
        ELSE <<>>

fromLinks(links) == SelectNonEmpty([i \in 1..Len(links) |-> linkTarget(links[i])])

\* Array.prototype.slice(0, n)
slice0(q, n) ==
    LET e == IF n < 0 THEN (IF Len(q) + n < 0 THEN 0 ELSE Len(q) + n)
             ELSE (IF n > Len(q) THEN Len(q) ELSE n)
    IN  SubSeq(q, 1, e)

\* the value of a string of decimal digits
RECURSIVE digitsValue(_)
digitsValue(s) ==
    IF s = <<>> THEN 0
    ELSE 10 * digitsValue(SubSeq(s, 1, Len(s) - 1))
         + (CHOOSE d \in 0..9 : ToString(d) = s[Len(s)])

isDigits(s) == s # <<>> /\ \A i \in 1..Len(s) : s[i] \in Digits

\* Number(raw) || dflt, for raw an optionally signed integer or anything else
numberOr(raw, dflt) ==
    LET t == trim(raw)
        n == IF isDigits(t) THEN digitsValue(t)
             ELSE IF Len(t) > 1 /\ t[1] = "-" /\ isDigits(Tail(t))
                  THEN 0 - digitsValue(Tail(t))
                  ELSE 0   \* NaN and the empty string are falsy, like 0
    IN  IF n = 0 THEN dflt ELSE n

DmMaxDefault == 3

\* constructor: this.dmMaxPerPost
dmMaxPerPostOf(raw) == numberOr(IF raw = <<>> THEN <<"3">> ELSE raw, DmMaxDefault)

\* sendDmReplies: uniqueTargets
uniqueTargets(mentions, links, dmMaxPerPost) ==
    slice0(dedupe(mentions \o fromLinks(links), {}), dmMaxPerPost)

(***************************************************************************)
(* The channel-event source: the posts it can deliver                      *)
(***************************************************************************)
\* "#Ab @Bob"
TextOneMention == <<"#","A","b"," ","@","B","o","b">>

\* "hi @amy"
TextNoHashtag == <<"h","i"," ","@","a","m","y">>

\* "#ab @Bob https://t.me/bob @amy @BOB http://Telegram.me/Cy"
TextManyTargets ==
    <<"#","a","b"," ","@","B","o","b"," ","h","t","t","p","s",":","/","/","t",".","m","e","/","b","o","b"," ">>
    \o <<"@","a","m","y"," ","@","B","O","B"," ","h","t","t","p",":","/","/","T","e","l","e","g","r","a","m",".","m","e","/","C","y">>

\* two channels that reuse message id 1, a second post of channel 100, and a
\* post without text
PostTable ==
    [p1 |-> [peerId |-> <<"1","0","0">>, messageId |-> 1, text |-> TextOneMention],
     p2 |-> [peerId |-> <<"2","0","0">>, messageId |-> 1, text |-> TextNoHashtag],
     p3 |-> [peerId |-> <<"1","0","0">>, messageId |-> 2, text |-> TextManyTargets],
     p4 |-> [peerId |-> <<"1","0","0">>, messageId |-> 3, text |-> <<>>]]

PostNames == DOMAIN PostTable

\* the two producers that call processApiMessage: the live handler, runBackfill
Invs == {"live", "backfill"}

(***************************************************************************)
(* Redis: SET key value NX EX ttl, and the idempotency gate                *)
(***************************************************************************)
\* `userbot:processed:${peerId}:${messageId}`
redisKey(peerId, messageId) == <<"userbot:processed", peerId, messageId>>

ttlSec == 7 * 24 * 60 * 60

\* a key is there until its expiry time has come
redisLive(store, key, t) == key \in DOMAIN store /\ store[key] > t

\* client.set(key, '1', { NX: true, EX: ttl }) at time t: reply and new keyspace
redisSetNxEx(store, key, ttl, t) ==
    IF redisLive(store, key, t)
    THEN [reply |-> "nil", store |-> store]
    ELSE [reply |-> "OK",
          store |-> [k \in DOMAIN store \cup {key} |->
                        IF k = key THEN t + ttl ELSE store[k]]]

\* markProcessedOnce that returns false when Redis throws
markProcessedOnceFailClosed(store, peerId, messageId, t, up) ==
    IF up
    THEN LET r == redisSetNxEx(store, redisKey(peerId, messageId), ttlSec, t)
         IN  [ret |-> r.reply = "OK", store |-> r.store, threw |-> FALSE]
    ELSE [ret |-> FALSE, store |-> store, threw |-> TRUE]

\* markProcessedOnce with SET ... EX but without NX
markProcessedOnceNoNx(store, peerId, messageId, t, up) ==
    LET key == redisKey(peerId, messageId)
    IN  IF up
        THEN [ret |-> TRUE,
              store |-> [k \in DOMAIN store \cup {key} |->
                            IF k = key THEN t + ttlSec ELSE store[k]],
              threw |-> FALSE]
        ELSE [ret |-> TRUE, store |-> store, threw |-> TRUE]

\* markProcessedOnce with a one-day marker
markProcessedOnceOneDay(store, peerId, messageId, t, up) ==
    IF up
    THEN LET r == redisSetNxEx(store, redisKey(peerId, messageId), 24 * 60 * 60, t)
         IN  [ret |-> r.reply = "OK", store |-> r.store, threw |-> FALSE]
    ELSE [ret |-> TRUE, store |-> store, threw |-> TRUE]

\* markProcessedOnce at time t; up = FALSE: the client call throws
markProcessedOnce(store, peerId, messageId, t, up) ==
    IF up
    THEN LET r == redisSetNxEx(store, redisKey(peerId, messageId), ttlSec, t)
         IN  [ret |-> r.reply = "OK", store |-> r.store, threw |-> FALSE]
    ELSE [ret |-> TRUE, store |-> store, threw |-> TRUE]

(***************************************************************************)
(* The vacancies table                                                     *)
(***************************************************************************)
rowsOf(rows, channelId, messageId) ==
    {r \in rows : r.channelId = channelId /\ r.messageId = messageId}

newVacancy(id, channelId, messageId) ==
    [id |-> id, channelId |-> channelId, messageId |-> messageId,
     status |-> "processed", dmSent |-> FALSE]

\* repository.save of a new entity into a table without the unique index
saveVacancyNoIndex(rows, id, channelId, messageId, dbOk) ==
    IF ~ dbOk THEN [rows |-> rows, result |-> "err"]
    ELSE [rows |-> rows \cup {newVacancy(id, channelId, messageId)},
          result |-> "ok"]

\* repository.save that replaces the row holding the pair
saveVacancyReplace(rows, id, channelId, messageId, dbOk) ==
    IF ~ dbOk THEN [rows |-> rows, result |-> "err"]
    ELSE [rows |-> (rows \ rowsOf(rows, channelId, messageId))
                      \cup {newVacancy(id, channelId, messageId)},
          result |-> "ok"]

\* repository.save of a new entity: INSERT under @Index([channelId, messageId], unique)
saveVacancy(rows, id, channelId, messageId, dbOk) ==
    IF ~ dbOk THEN [rows |-> rows, result |-> "err"]
    ELSE IF rowsOf(rows, channelId, messageId) # {}
    THEN [rows |-> rows, result |-> "dup"]
    ELSE [rows |-> rows \cup {newVacancy(id, channelId, messageId)},
          result |-> "ok"]

\* an update that writes a row for the pair when the table holds none
updateSentUpsert(rows, channelId, messageId) ==
    IF rowsOf(rows, channelId, messageId) = {}
    THEN rows \cup {[newVacancy(0, channelId, messageId) EXCEPT !.dmSent = TRUE,
                                                              !.status = "sent"]}
    ELSE {IF r.channelId = channelId /\ r.messageId = messageId
          THEN [r EXCEPT !.dmSent = TRUE, !.status = "sent"] ELSE r : r \in rows}

\* repository.update({channelId, messageId}, {dmSent: true, status: 'sent'})
updateSent(rows, channelId, messageId) ==
    {IF r.channelId = channelId /\ r.messageId = messageId
     THEN [r EXCEPT !.dmSent = TRUE, !.status = "sent"] ELSE r : r \in rows}

(***************************************************************************)
(* Outreach: what happens to one target of the dispatch loop               *)
(***************************************************************************)
\* isChannelAllowed for a list of numeric channel ids (no @username entries)
isChannelAllowed(channelIdentifiers, peerId) ==
    Len(channelIdentifiers) = 0 \/ peerId \in Range(channelIdentifiers)

\* the payload chosen for a target: which source it came from, or "none"
payloadOf(llmReplyText, llmConfigured, generatedOk, replyTemplate) ==
    IF llmReplyText THEN "llm"
    ELSE IF llmConfigured /\ generatedOk THEN "generated"
    ELSE IF replyTemplate # <<>> THEN "template"
    ELSE "none"

\* one loop iteration that does not look at this.dryRun
sendOutcomeNoDryRun(dryRun, resolveOk, payload, sendOk) ==
    IF ~ resolveOk THEN "resolve-failed"
    ELSE IF payload = "none" THEN "no-payload"
    ELSE IF sendOk THEN "sent"
    ELSE "send-failed"

\* one loop iteration that sets dmSent before awaiting sendMessage
sendOutcomeEager(dryRun, resolveOk, payload, sendOk) ==
    IF ~ resolveOk THEN "resolve-failed"
    ELSE IF payload = "none" THEN "no-payload"
    ELSE IF dryRun THEN "dry-run"
    ELSE "sent"

\* one loop iteration: getEntity, payload, dry-run log or sendMessage
sendOutcome(dryRun, resolveOk, payload, sendOk) ==
    IF ~ resolveOk THEN "resolve-failed"
    ELSE IF payload = "none" THEN "no-payload"
    ELSE IF dryRun THEN "dry-run"
    ELSE IF sendOk THEN "sent"
    ELSE "send-failed"

(***************************************************************************)
(* Configurations explored                                                 *)
(***************************************************************************)
BaseConfig ==
    [keywordsRaw |-> <<>>, channelIdsRaw |-> <<>>, dmMaxRaw |-> <<>>,
     dryRun |-> FALSE, autoReplyEnabled |-> TRUE, llmConfigured |-> FALSE,
     replyTemplate |-> <<"h","i">>, backfillOnStart |-> FALSE]

\* live handler and backfill both running, over two channels, replies off
RaceConfig ==
    [BaseConfig EXCEPT !.backfillOnStart = TRUE, !.autoReplyEnabled = FALSE]

RaceConfigs ==
    { RaceConfig,
      [RaceConfig EXCEPT !.keywordsRaw = <<"A","b">>],
      [RaceConfig EXCEPT !.channelIdsRaw = <<"1","0","0">>] }

\* live handler alone: the defaults, and settings one or two options away
SoloConfigs ==
    { BaseConfig,
      [BaseConfig EXCEPT !.dmMaxRaw = <<"2">>],
      [BaseConfig EXCEPT !.dmMaxRaw = <<"-","1">>],
      [BaseConfig EXCEPT !.dryRun = TRUE],
      [BaseConfig EXCEPT !.dryRun = TRUE, !.dmMaxRaw = <<"2">>],
      [BaseConfig EXCEPT !.autoReplyEnabled = FALSE],
      [BaseConfig EXCEPT !.autoReplyEnabled = FALSE, !.llmConfigured = TRUE],
      [BaseConfig EXCEPT !.llmConfigured = TRUE],
      [BaseConfig EXCEPT !.replyTemplate = <<>>],
      [BaseConfig EXCEPT !.replyTemplate = <<>>, !.dryRun = TRUE],
      [BaseConfig EXCEPT !.replyTemplate = <<>>, !.llmConfigured = TRUE] }

\* live handler and backfill both running with replies on, channel 100 only
OpsConfig ==
    [BaseConfig EXCEPT !.backfillOnStart = TRUE, !.channelIdsRaw = <<"1","0","0">>]

Configs == RaceConfigs \cup SoloConfigs \cup {OpsConfig}

\* constructor: this.keywords, this.channelIdentifiers, this.dmMaxPerPost
Constructed ==
    [c \in Configs |->
        [keywords |-> keywordsOf(c.keywordsRaw),
         channelIdentifiers |->
            LET l == parseListFromConfig(c.channelIdsRaw)
            IN  [i \in 1..Len(l) |-> toLowerCase(l[i])],
         dmMaxPerPost |-> dmMaxPerPostOf(c.dmMaxRaw)]]

keywords == Constructed[cfg].keywords

channelIdentifiers == Constructed[cfg].channelIdentifiers

dmMaxPerPost == Constructed[cfg].dmMaxPerPost

\* const digest = { text, mentions, links }
Digest ==
    [p \in PostNames |->
        [text |-> PostTable[p].text,
         mentions |-> extractMentions(PostTable[p].text),
         links |-> extractLinks(PostTable[p].text)]]

\* the outcome of the keyword gate, per configuration and post
KeywordGate ==
    [c \in Configs |-> [p \in PostNames |->
        passesKeywordGate(Constructed[c].keywords, PostTable[p].text)]]

(***************************************************************************)
(* processApiMessage, one action per stretch between awaits                *)
(***************************************************************************)
MaxTicks == 2

TickSec == 302400

MaxDeliveries == 2

Post(i) == PostTable[cur[i]]

Fresh ==
    [gate |-> "none", gateAt |-> -1, prevOk |-> -1, seen |-> FALSE,
     llmReplyText |-> FALSE, saved |-> "none", targets |-> <<>>,
     queue |-> <<>>, dmSent |-> FALSE, delays |-> 0, log |-> <<>>,
     update |-> "none", outcome |-> "none"]

\* processApiMessage returns; its promise is still to be picked up
Finish(i, l, how) ==
    /\ pc' = [pc EXCEPT ![i] = "done"]
    /\ loc' = [loc EXCEPT ![i] = [l EXCEPT !.outcome = how]]

\* processApiMessage that hands a post without keyword match on to the gate
DeliverNoKeywordCheck(i, p) ==
    /\ pc[i] = "idle"
    /\ p \in feed
    /\ i = "backfill" => cfg.backfillOnStart
    /\ stats.totalProcessed + stats.skippedNotAllowed < MaxDeliveries
    /\ cur' = [cur EXCEPT ![i] = p]
    /\ LET m == PostTable[p]
       IN  IF m.text = <<>>
           THEN /\ Finish(i, Fresh, "no-text")
                /\ UNCHANGED stats
           ELSE IF ~ isChannelAllowed(channelIdentifiers, m.peerId)
           THEN /\ Finish(i, Fresh, "not-allowed")
                /\ stats' = [stats EXCEPT !.skippedNotAllowed = @ + 1]
           ELSE /\ pc' = [pc EXCEPT ![i] = "gate"]
                /\ loc' = [loc EXCEPT ![i] = Fresh]
                /\ stats' = [stats EXCEPT !.totalProcessed = @ + 1]
    /\ UNCHANGED <<cfg, now, redis, vacancies, nextId, lastOk, feed, arg, ret>>

\* processApiMessage that counts a post in totalProcessed before the channel check
DeliverCountsBeforeAllowed(i, p) ==
    /\ pc[i] = "idle"
    /\ p \in feed
    /\ i = "backfill" => cfg.backfillOnStart
    /\ stats.totalProcessed + stats.skippedNotAllowed < MaxDeliveries
    /\ cur' = [cur EXCEPT ![i] = p]
    /\ LET m == PostTable[p]
       IN  IF m.text = <<>>
           THEN /\ Finish(i, Fresh, "no-text")
                /\ UNCHANGED stats
           ELSE IF ~ isChannelAllowed(channelIdentifiers, m.peerId)
           THEN /\ Finish(i, Fresh, "not-allowed")
                /\ stats' = [stats EXCEPT !.totalProcessed = @ + 1,
                                          !.skippedNotAllowed = @ + 1]
           ELSE IF ~ KeywordGate[cfg][p]
           THEN /\ Finish(i, Fresh, "no-keyword")
                /\ stats' = [stats EXCEPT !.totalProcessed = @ + 1,
                                          !.skippedNoKeyword = @ + 1]
           ELSE /\ pc' = [pc EXCEPT ![i] = "gate"]
                /\ loc' = [loc EXCEPT ![i] = Fresh]
                /\ stats' = [stats EXCEPT !.totalProcessed = @ + 1]
    /\ UNCHANGED <<cfg, now, redis, vacancies, nextId, lastOk, feed, arg, ret>>

\* a producer calls processApiMessage(p): text, channel and keyword checks
Deliver(i, p) ==
    /\ pc[i] = "idle"
    /\ p \in feed
    /\ i = "backfill" => cfg.backfillOnStart
    /\ stats.totalProcessed + stats.skippedNotAllowed < MaxDeliveries
    /\ cur' = [cur EXCEPT ![i] = p]
    /\ LET m == PostTable[p]
       IN  IF m.text = <<>>
           THEN /\ Finish(i, Fresh, "no-text")
                /\ UNCHANGED stats
           ELSE IF ~ isChannelAllowed(channelIdentifiers, m.peerId)
           THEN /\ Finish(i, Fresh, "not-allowed")
                /\ stats' = [stats EXCEPT !.skippedNotAllowed = @ + 1]
           ELSE IF ~ KeywordGate[cfg][p]
           THEN /\ Finish(i, Fresh, "no-keyword")
                /\ stats' = [stats EXCEPT !.totalProcessed = @ + 1,
                                          !.skippedNoKeyword = @ + 1]
           ELSE /\ pc' = [pc EXCEPT ![i] = "gate"]
                /\ loc' = [loc EXCEPT ![i] = Fresh]
                /\ stats' = [stats EXCEPT !.totalProcessed = @ + 1]
    /\ UNCHANGED <<cfg, now, redis, vacancies, nextId, lastOk, feed, arg, ret>>

\* the gate step with the answer of markProcessedOnce left unused
MarkProcessedOnceUnchecked(i) ==
    /\ pc[i] = "gate"
    /\ \E up \in BOOLEAN :
        LET m == Post(i)
            r == markProcessedOnce(redis, m.peerId, m.messageId, now, up)
            l == [loc[i] EXCEPT
                    !.gate = IF r.threw THEN "error"
                             ELSE IF r.ret THEN "created" ELSE "exists",
                    !.gateAt = now,
                    !.prevOk = lastOk[cur[i]],
                    !.seen = redisLive(redis, redisKey(m.peerId, m.messageId), now)]
        IN  /\ redis' = r.store
            /\ lastOk' = IF r.ret /\ ~ r.threw
                         THEN [lastOk EXCEPT ![cur[i]] = now] ELSE lastOk
            /\ pc' = [pc EXCEPT ![i] = "extract"]
            /\ loc' = [loc EXCEPT ![i] = l]
            /\ stats' = [stats EXCEPT !.successfullyProcessed = @ + 1]
    /\ UNCHANGED <<cfg, now, vacancies, nextId, cur, feed, arg, ret>>

\* await markProcessedOnce; a duplicate ends the call
MarkProcessedOnce(i) ==
    /\ pc[i] = "gate"
    /\ \E up \in BOOLEAN :
        LET m == Post(i)
            r == markProcessedOnce(redis, m.peerId, m.messageId, now, up)
            l == [loc[i] EXCEPT
                    !.gate = IF r.threw THEN "error"
                             ELSE IF r.ret THEN "created" ELSE "exists",
                    !.gateAt = now,
                    !.prevOk = lastOk[cur[i]],
                    !.seen = redisLive(redis, redisKey(m.peerId, m.messageId), now)]
        IN  /\ redis' = r.store
            /\ lastOk' = IF r.ret /\ ~ r.threw
                         THEN [lastOk EXCEPT ![cur[i]] = now] ELSE lastOk
            /\ IF r.ret
               THEN /\ pc' = [pc EXCEPT ![i] = "extract"]
                    /\ loc' = [loc EXCEPT ![i] = l]
                    /\ stats' = [stats EXCEPT !.successfullyProcessed = @ + 1]
               ELSE /\ Finish(i, l, "duplicate")
                    /\ stats' = [stats EXCEPT !.skippedDuplicate = @ + 1]
    /\ UNCHANGED <<cfg, now, vacancies, nextId, cur, feed, arg, ret>>

\* field extraction and reply generation: the reply text exists whenever the
\* LLM is configured (callLlmGenerate never throws, the template is never empty)
ExtractFields(i) ==
    /\ pc[i] = "extract"
    /\ pc' = [pc EXCEPT ![i] = "save"]
    /\ loc' = [loc EXCEPT ![i].llmReplyText = cfg.llmConfigured]
    /\ UNCHANGED <<cfg, now, redis, vacancies, nextId, stats, cur, lastOk, feed,
                   arg, ret>>

\* the save step going on to sendDmReplies whatever TELEGRAM_AUTO_REPLY says
SaveVacancyAlwaysDispatch(i) ==
    /\ pc[i] = "save"
    /\ \E dbOk \in BOOLEAN :
        LET m == Post(i)
            r == saveVacancy(vacancies, nextId, m.peerId, m.messageId, dbOk)
            t == uniqueTargets(Digest[cur[i]].mentions, Digest[cur[i]].links,
                               dmMaxPerPost)
            l == [loc[i] EXCEPT !.saved = r.result]
        IN  /\ vacancies' = r.rows
            /\ nextId' = IF r.result = "ok" THEN nextId + 1 ELSE nextId
            /\ IF Len(t) > 0
               THEN /\ pc' = [pc EXCEPT ![i] = "dm_delay"]
                    /\ loc' = [loc EXCEPT ![i] = [l EXCEPT !.targets = t, !.queue = t]]
               ELSE Finish(i, l, "completed")
    /\ UNCHANGED <<cfg, now, redis, stats, cur, lastOk, feed, arg, ret>>

\* the save step going on to sendDmReplies only when the record was written
SaveVacancyDispatchIfSaved(i) ==
    /\ pc[i] = "save"
    /\ \E dbOk \in BOOLEAN :
        LET m == Post(i)
            r == saveVacancy(vacancies, nextId, m.peerId, m.messageId, dbOk)
            t == uniqueTargets(Digest[cur[i]].mentions, Digest[cur[i]].links,
                               dmMaxPerPost)
            l == [loc[i] EXCEPT !.saved = r.result]
        IN  /\ vacancies' = r.rows
            /\ nextId' = IF r.result = "ok" THEN nextId + 1 ELSE nextId
            /\ IF cfg.autoReplyEnabled /\ Len(t) > 0 /\ r.result = "ok"
               THEN /\ pc' = [pc EXCEPT ![i] = "dm_delay"]
                    /\ loc' = [loc EXCEPT ![i] = [l EXCEPT !.targets = t, !.queue = t]]
               ELSE Finish(i, l, "completed")
    /\ UNCHANGED <<cfg, now, redis, stats, cur, lastOk, feed, arg, ret>>

\* await vacancyRepository.save, then the head of sendDmReplies
SaveVacancy(i) ==
    /\ pc[i] = "save"
    /\ \E dbOk \in BOOLEAN :
        LET m == Post(i)
            r == saveVacancy(vacancies, nextId, m.peerId, m.messageId, dbOk)
            t == uniqueTargets(Digest[cur[i]].mentions, Digest[cur[i]].links,
                               dmMaxPerPost)
            l == [loc[i] EXCEPT !.saved = r.result]
        IN  /\ vacancies' = r.rows
            /\ nextId' = IF r.result = "ok" THEN nextId + 1 ELSE nextId
            /\ IF cfg.autoReplyEnabled /\ Len(t) > 0
               THEN /\ pc' = [pc EXCEPT ![i] = "dm_delay"]
                    /\ loc' = [loc EXCEPT ![i] = [l EXCEPT !.targets = t, !.queue = t]]
               ELSE Finish(i, l, "completed")
    /\ UNCHANGED <<cfg, now, redis, stats, cur, lastOk, feed, arg, ret>>

\* await this.delay(this.dmDelayMs)
DmDelay(i) ==
    /\ pc[i] = "dm_delay"
    /\ pc' = [pc EXCEPT ![i] = "dm_target"]
    /\ loc' = [loc EXCEPT ![i].delays = @ + 1]
    /\ UNCHANGED <<cfg, now, redis, vacancies, nextId, stats, cur, lastOk, feed,
                   arg, ret>>

\* the loop going from one target to the next without the delay
DmTargetNoDelay(i) ==
    /\ pc[i] = "dm_target"
    /\ \E resolveOk \in BOOLEAN, generatedOk \in BOOLEAN, sendOk \in BOOLEAN :
        LET payload == payloadOf(loc[i].llmReplyText, cfg.llmConfigured, generatedOk,
                                 cfg.replyTemplate)
            out == sendOutcome(cfg.dryRun, resolveOk, payload, sendOk)
            called == out \in {"sent", "send-failed"}
            l == [loc[i] EXCEPT
                    !.queue = Tail(@),
                    !.dmSent = @ \/ out = "sent",
                    !.log = Append(@, [target |-> Head(loc[i].queue),
                                       resolved |-> resolveOk,
                                       payload |-> payload # "none",
                                       called |-> called,
                                       accepted |-> called /\ sendOk,
                                       outcome |-> out])]
        IN  IF Len(l.queue) > 0
            THEN /\ pc' = [pc EXCEPT ![i] = "dm_target"]
                 /\ loc' = [loc EXCEPT ![i] = l]
            ELSE IF l.dmSent
            THEN /\ pc' = [pc EXCEPT ![i] = "dm_update"]
                 /\ loc' = [loc EXCEPT ![i] = l]
            ELSE Finish(i, l, "completed")
    /\ UNCHANGED <<cfg, now, redis, vacancies, nextId, stats, cur, lastOk, feed,
                   arg, ret>>

\* the loop left at the first target that fails
DmTargetAbortOnFailure(i) ==
    /\ pc[i] = "dm_target"
    /\ \E resolveOk \in BOOLEAN, generatedOk \in BOOLEAN, sendOk \in BOOLEAN :
        LET payload == payloadOf(loc[i].llmReplyText, cfg.llmConfigured, generatedOk,
                                 cfg.replyTemplate)
            out == sendOutcome(cfg.dryRun, resolveOk, payload, sendOk)
            called == out \in {"sent", "send-failed"}
            l == [loc[i] EXCEPT
                    !.queue = Tail(@),
                    !.dmSent = @ \/ out = "sent",
                    !.log = Append(@, [target |-> Head(loc[i].queue),
                                       resolved |-> resolveOk,
                                       payload |-> payload # "none",
                                       called |-> called,
                                       accepted |-> called /\ sendOk,
                                       outcome |-> out])]
        IN  IF Len(l.queue) > 0 /\ out \notin {"resolve-failed", "send-failed"}
            THEN /\ pc' = [pc EXCEPT ![i] = "dm_delay"]
                 /\ loc' = [loc EXCEPT ![i] = l]
            ELSE IF l.dmSent
            THEN /\ pc' = [pc EXCEPT ![i] = "dm_update"]
                 /\ loc' = [loc EXCEPT ![i] = l]
            ELSE Finish(i, l, "completed")
    /\ UNCHANGED <<cfg, now, redis, vacancies, nextId, stats, cur, lastOk, feed,
                   arg, ret>>

\* getEntity, payload, dry-run log or sendMessage for the next target
DmTarget(i) ==
    /\ pc[i] = "dm_target"
    /\ \E resolveOk \in BOOLEAN, generatedOk \in BOOLEAN, sendOk \in BOOLEAN :
        LET payload == payloadOf(loc[i].llmReplyText, cfg.llmConfigured, generatedOk,
                                 cfg.replyTemplate)
            out == sendOutcome(cfg.dryRun, resolveOk, payload, sendOk)
            called == out \in {"sent", "send-failed"}
            l == [loc[i] EXCEPT
                    !.queue = Tail(@),
                    !.dmSent = @ \/ out = "sent",
                    !.log = Append(@, [target |-> Head(loc[i].queue),
                                       resolved |-> resolveOk,
                                       payload |-> payload # "none",
                                       called |-> called,
                                       accepted |-> called /\ sendOk,
                                       outcome |-> out])]
        IN  IF Len(l.queue) > 0
            THEN /\ pc' = [pc EXCEPT ![i] = "dm_delay"]
                 /\ loc' = [loc EXCEPT ![i] = l]
            ELSE IF l.dmSent
            THEN /\ pc' = [pc EXCEPT ![i] = "dm_update"]
                 /\ loc' = [loc EXCEPT ![i] = l]
            ELSE Finish(i, l, "completed")
    /\ UNCHANGED <<cfg, now, redis, vacancies, nextId, stats, cur, lastOk, feed,
                   arg, ret>>

\* await vacancyRepository.update(...) when a DM was sent
UpdateStatus(i) ==
    /\ pc[i] = "dm_update"
    /\ \E dbOk \in BOOLEAN :
        LET m == Post(i)
        IN  /\ vacancies' = IF dbOk THEN updateSent(vacancies, m.peerId, m.messageId)
                            ELSE vacancies
            /\ Finish(i, [loc[i] EXCEPT !.update = IF dbOk THEN "ok" ELSE "err"],
                      "completed")
    /\ UNCHANGED <<cfg, now, redis, nextId, stats, cur, lastOk, feed, arg, ret>>

\* the caller picks the settled promise up and is free for its next post
Return(i) ==
    /\ pc[i] = "done"
    /\ pc' = [pc EXCEPT ![i] = "idle"]
    /\ loc' = [loc EXCEPT ![i] = Fresh]
    /\ UNCHANGED <<cfg, now, redis, vacancies, nextId, stats, cur, lastOk, feed,
                   arg, ret>>

\* time passes; Redis drops the keys whose expiry time has come
Tick ==
    /\ now < MaxTicks * TickSec
    /\ now' = now + TickSec
    /\ redis' = [k \in {x \in DOMAIN redis : redis[x] > now + TickSec} |-> redis[k]]
    /\ UNCHANGED <<cfg, vacancies, nextId, stats, pc, cur, loc, lastOk, feed,
                   arg, ret>>

(***************************************************************************)
(* Initial states and specification of the pipeline                        *)
(***************************************************************************)
IdleFn == /\ arg = [fn |-> "none"]
          /\ ret = <<>>

Init ==
    /\ \/ cfg \in RaceConfigs /\ feed = {"p1", "p2"}
       \/ cfg \in SoloConfigs /\ feed = {"p3"}
    /\ now = 0
    /\ redis = <<>>
    /\ vacancies = {}
    /\ nextId = 1
    /\ stats = [totalProcessed |-> 0, skippedNoKeyword |-> 0, skippedDuplicate |-> 0,
                skippedNotAllowed |-> 0, successfullyProcessed |-> 0]
    /\ pc = [i \in Invs |-> "idle"]
    /\ cur = [i \in Invs |-> "p1"]
    /\ loc = [i \in Invs |-> Fresh]
    /\ lastOk = [p \in PostNames |-> -1]
    /\ IdleFn

Next ==
    \/ \E i \in Invs, p \in PostNames : Deliver(i, p)
    \/ \E i \in Invs : MarkProcessedOnce(i)
    \/ \E i \in Invs : ExtractFields(i)
    \/ \E i \in Invs : SaveVacancy(i)
    \/ \E i \in Invs : DmDelay(i)
    \/ \E i \in Invs : DmTarget(i)
    \/ \E i \in Invs : UpdateStatus(i)
    \/ \E i \in Invs : Return(i)
    \/ Tick

Spec == Init /\ [][Next]_vars

(***************************************************************************)
(* Idempotency gate: C1 - C4                                               *)
(***************************************************************************)
\* invocation i is past the gate: extraction, persistence or dispatch has
\* started, or the whole pipeline ran
Admitted(i) ==
    \/ pc[i] \in {"extract", "save", "dm_delay", "dm_target", "dm_update"}
    \/ pc[i] = "done" /\ loc[i].outcome = "completed"

\* invocation i made its store call and has not been forgotten yet
Gated(i) == loc[i].gate # "none"

\* C1 as written: every invocation that gets past the gate found the lease of
\* its post absent or expired, and no two invocations get past the gate on
\* one lease.
C1_OnlyWithoutLease ==
    /\ \A i \in Invs : Admitted(i) => ~ loc[i].seen
    /\ \A i, j \in Invs :
          (i # j /\ cur[i] = cur[j] /\ Admitted(i) /\ Admitted(j))
             => (loc[i].gateAt - loc[j].gateAt >= 7 * 86400
                 \/ loc[j].gateAt - loc[i].gateAt >= 7 * 86400)

\* C1 amended: an invocation gets past the gate only if its SET NX created the
\* lease (the lease was absent or expired at that moment) or its store call
\* failed (fail-open); two invocations that both created the lease of one post
\* did so at least 7 days apart.
C1_OnePerLeaseUnlessFailOpen ==
    /\ \A i \in Invs :
          Admitted(i) => \/ loc[i].gate = "created" /\ ~ loc[i].seen
                         \/ loc[i].gate = "error"
    /\ \A i, j \in Invs :
          (i # j /\ cur[i] = cur[j] /\ Admitted(i) /\ Admitted(j)
             /\ loc[i].gate = "created" /\ loc[j].gate = "created")
             => (loc[i].gateAt - loc[j].gateAt >= 7 * 86400
                 \/ loc[j].gateAt - loc[i].gateAt >= 7 * 86400)

\* live and backfill delivered the same post; one ran the pipeline, the other
\* was stopped at the gate by the lease
C1_Witness ==
    \E i, j \in Invs :
        /\ i # j /\ cur[i] = cur[j]
        /\ Admitted(i) /\ loc[i].gate = "created"
        /\ pc[j] = "done" /\ loc[j].outcome = "duplicate" /\ loc[j].seen

\* C2: with the store reachable, markProcessedOnce returns true on the first
\* call for a key and on the first call made 7 days or more after the call
\* that last created the marker, and false on every call in between.
C2_TrueFirstFalseWithinSevenDays ==
    \A i \in Invs :
        loc[i].gate \in {"created", "exists"}
           => (loc[i].gate = "created"
                 <=> (loc[i].prevOk = -1
                      \/ loc[i].gateAt - loc[i].prevOk >= 7 * 86400))

\* a call that returned true again after the earlier marker had expired
C2_Witness ==
    \E i \in Invs :
        loc[i].gate = "created" /\ loc[i].prevOk >= 0 /\ loc[i].gateAt > loc[i].prevOk

\* C3: of two store-reachable calls for one key made less than 7 days apart,
\* at most one returns true; if either of them found the marker absent,
\* exactly one returns true, and it is one that found the marker absent.
C3_ExactlyOneWinner ==
    \A i, j \in Invs :
        (/\ i # j /\ cur[i] = cur[j]
         /\ loc[i].gate \in {"created", "exists"}
         /\ loc[j].gate \in {"created", "exists"}
         /\ loc[i].gateAt - loc[j].gateAt < 7 * 86400
         /\ loc[j].gateAt - loc[i].gateAt < 7 * 86400)
        => /\ ~ (loc[i].gate = "created" /\ loc[j].gate = "created")
           /\ (~ loc[i].seen \/ ~ loc[j].seen)
                 => (loc[i].gate = "created" \/ loc[j].gate = "created")
           /\ loc[i].gate = "created" => ~ loc[i].seen

\* both producers are inside markProcessedOnce's caller for the same post at
\* the same time: the winner still runs the pipeline, the loser got false
C3_Witness ==
    \E i, j \in Invs :
        /\ i # j /\ cur[i] = cur[j]
        /\ loc[i].gateAt = loc[j].gateAt
        /\ pc[i] \in {"extract", "save"} /\ loc[i].gate = "created"
        /\ pc[j] = "done" /\ loc[j].gate = "exists"

\* C4: an invocation whose store call failed is admitted: it goes on to
\* extraction and ends as a completed pipeline run, never as a duplicate and
\* never with an error.
C4_FailOpen ==
    \A i \in Invs :
        loc[i].gate = "error"
           => /\ Admitted(i)
              /\ pc[i] = "done" => loc[i].outcome = "completed"

\* the store call failed while the lease was held, and the post was still
\* processed up to the save
C4_Witness ==
    \E i \in Invs :
        /\ loc[i].gate = "error" /\ loc[i].seen
        /\ pc[i] = "done" /\ loc[i].outcome = "completed" /\ loc[i].saved # "none"

(***************************************************************************)
(* Vacancy rows and outreach: C5 - C8                                      *)
(***************************************************************************)
UniquePair(rows) ==
    \A r1, r2 \in rows :
        (r1.channelId = r2.channelId /\ r1.messageId = r2.messageId) => r1 = r2

\* C5: the table never holds two rows with the same (channelId, messageId),
\* and a save for a pair that already has a row leaves the table as it was.
C5_UniquePairKept ==
    [][ /\ UniquePair(vacancies')
        /\ \A i \in Invs :
              (/\ pc[i] = "save" /\ pc'[i] # "save"
               /\ rowsOf(vacancies, Post(i).peerId, Post(i).messageId) # {})
              => vacancies' = vacancies ]_vars

\* the gate admitted a post that already had a row (store failure or expired
\* lease), and its save bounced off the unique index
C5_Witness ==
    \E i \in Invs :
        /\ loc[i].saved = "dup" /\ loc[i].gate \in {"error", "created"}
        /\ rowsOf(vacancies, Post(i).peerId, Post(i).messageId) # {}

HasAccepted(log) == \E k \in 1..Len(log) : log[k].accepted

CountOutcome(log, o) == Cardinality({k \in 1..Len(log) : log[k].outcome = o})

RowsOfPost(i) == rowsOf(vacancies, Post(i).peerId, Post(i).messageId)

\* C6 as written: when the dispatch loop of the run that created the record is
\* over, the record is sent/dmSent exactly if one real send succeeded.
C6_SentIffAnySend ==
    \A i \in Invs :
        (pc[i] = "done" /\ loc[i].outcome = "completed" /\ loc[i].saved = "ok")
           => \A r \in RowsOfPost(i) :
                 (r.status = "sent" /\ r.dmSent) <=> HasAccepted(loc[i].log)

\* C6 amended: the loop goes on to the status update exactly if one real send
\* succeeded; a row turns from processed to sent only in the update step of a
\* run with a successful send for that post; an update that succeeds leaves
\* every row of the post sent with dmSent = true, and one that fails leaves
\* the table as it was.
C6_SentOnlyAfterSendAndUpdate ==
    [][ /\ \A i \in Invs :
              (pc[i] = "dm_target" /\ pc'[i] \in {"dm_update", "done"})
                 => (pc'[i] = "dm_update" <=> HasAccepted(loc'[i].log))
        /\ \A r \in vacancies, q \in vacancies' :
              (r.id = q.id /\ r.status = "processed" /\ q.status = "sent")
                 => \E i \in Invs :
                       /\ pc[i] = "dm_update" /\ pc'[i] = "done"
                       /\ Post(i).peerId = r.channelId
                       /\ Post(i).messageId = r.messageId
                       /\ HasAccepted(loc[i].log)
        /\ \A i \in Invs :
              (pc[i] = "dm_update" /\ pc'[i] = "done")
                 => IF loc'[i].update = "ok"
                    THEN \A q \in rowsOf(vacancies', Post(i).peerId, Post(i).messageId) :
                            q.status = "sent" /\ q.dmSent
                    ELSE vacancies' = vacancies ]_vars

\* a run that created its record, had a failed and a successful send, and
\* whose update went through
C6_Witness ==
    \E i \in Invs :
        /\ pc[i] = "done" /\ loc[i].saved = "ok" /\ loc[i].update = "ok"
        /\ CountOutcome(loc[i].log, "send-failed") > 0
        /\ \E r \in RowsOfPost(i) : r.status = "sent" /\ r.dmSent

\* the distinct handles of a post before the cap is applied
DistinctTargets(p) == dedupe(Digest[p].mentions \o fromLinks(Digest[p].links), {})

Min(a, b) == IF a < b THEN a ELSE b

\* C7 as written: in dry-run mode no real send is made, a completed run has
\* logged exactly min(T, C) would-send events, each after a delay, and every
\* record is still processed with dmSent = false.
C7_DryRunExactlyMin ==
    cfg.dryRun =>
        /\ \A i \in Invs :
              /\ \A k \in 1..Len(loc[i].log) : ~ loc[i].log[k].called
              /\ Len(loc[i].log) <= loc[i].delays
              /\ (pc[i] = "done" /\ loc[i].outcome = "completed")
                    => CountOutcome(loc[i].log, "dry-run")
                          = Min(Len(DistinctTargets(cur[i])), dmMaxPerPost)
        /\ \A r \in vacancies : r.status = "processed" /\ ~ r.dmSent

\* C7 amended: in dry-run mode no real send is made; a would-send event is
\* logged for exactly those targets of the capped list whose identity
\* resolved and for which a payload exists, each after the delay of its
\* iteration; a completed run has handled every target of the capped list;
\* every record is still processed with dmSent = false.
C7_DryRunNeverSends ==
    cfg.dryRun =>
        /\ \A i \in Invs :
              /\ \A k \in 1..Len(loc[i].log) :
                    /\ ~ loc[i].log[k].called
                    /\ loc[i].log[k].outcome = "dry-run"
                          <=> (loc[i].log[k].resolved /\ loc[i].log[k].payload)
                    /\ loc[i].log[k].target = loc[i].targets[k]
              /\ Len(loc[i].log) <= loc[i].delays
              /\ Len(loc[i].log) <= Len(loc[i].targets)
              /\ ~ loc[i].dmSent
              /\ pc[i] # "dm_update"
              /\ (pc[i] = "done" /\ loc[i].outcome = "completed")
                    => Len(loc[i].log) = Len(loc[i].targets)
        /\ \A r \in vacancies : r.status = "processed" /\ ~ r.dmSent

\* three distinct handles in the post, cap 2, dry run: two would-send events
C7_Witness ==
    /\ cfg.dryRun /\ dmMaxPerPost = 2
    /\ \E i \in Invs :
          /\ pc[i] = "done" /\ loc[i].outcome = "completed"
          /\ Len(DistinctTargets(cur[i])) = 3
          /\ CountOutcome(loc[i].log, "dry-run") = 2
          /\ loc[i].delays = 2
          /\ \E r \in RowsOfPost(i) : r.status = "processed"

\* C8: a dispatch loop has at most dmMaxPerPost targets, they are pairwise
\* distinct, and no target is handled (let alone sent to) twice.
C8_AtMostDmMaxDistinct ==
    \A i \in Invs :
        Len(loc[i].targets) > 0
           => /\ Len(loc[i].targets) <= dmMaxPerPost
              /\ \A a, b \in 1..Len(loc[i].targets) :
                    a # b => loc[i].targets[a] # loc[i].targets[b]
              /\ \A a, b \in 1..Len(loc[i].log) :
                    a # b => loc[i].log[a].target # loc[i].log[b].target

(***************************************************************************)
(* The keyword gate and the LLM merge, evaluated on their own              *)
(***************************************************************************)
\* no processApiMessage call is in flight; only arg and ret are in use
PipelineIdle ==
    /\ cfg = BaseConfig
    /\ feed = {}
    /\ now = 0
    /\ redis = <<>>
    /\ vacancies = {}
    /\ nextId = 1
    /\ stats = [totalProcessed |-> 0, skippedNoKeyword |-> 0, skippedDuplicate |-> 0,
                skippedNotAllowed |-> 0, successfullyProcessed |-> 0]
    /\ pc = [i \in Invs |-> "idle"]
    /\ cur = [i \in Invs |-> "p1"]
    /\ loc = [i \in Invs |-> Fresh]
    /\ lastOk = [p \in PostNames |-> -1]

MaxTextLen == 4

FilterAlphabet == {"#", "a", "A", "b", " ", "U0414"}

\* what extractMessageText can return and the no-text check lets through
FilterTexts ==
    {t \in UNION {[1..n -> FilterAlphabet] : n \in 1..MaxTextLen} : trim(t) = t}

\* values of TELEGRAM_KEYWORDS: unset, separators only, plain, upper case,
\* already '#'-prefixed, several entries, Cyrillic
FilterKeywordRaws ==
    { <<>>, <<",">>, <<"a">>, <<"A">>, <<"#", "a">>, <<"a", "b">>,
      <<"b", ",", " ", "#", "A", ";">>, <<"U0414">> }

\* the keyword gate of processApiMessage on the text of one message
EvalKeywordGate ==
    /\ arg.fn = "keywordGate"
    /\ ret = <<>>
    /\ ret' = <<passesKeywordGate(keywordsOf(arg.keywordsRaw), arg.text)>>
    /\ UNCHANGED <<pipeVars, arg>>

InitFilter ==
    /\ PipelineIdle
    /\ arg \in [fn : {"keywordGate"}, keywordsRaw : FilterKeywordRaws, text : FilterTexts]
    /\ ret = <<>>

NextFilter == EvalKeywordGate

SpecFilter == InitFilter /\ [][NextFilter]_vars

\* JavaScript undefined and null next to string values
JsUndefined == "<undefined>"

JsNull == "<null>"

\* ToBoolean, on the values the model has
Truthy(v) == v \notin {JsUndefined, JsNull, ""}

MergeFields == {"salary", "company", "location", "workFormat", "employment"}

\* extractFieldsWithLlm's return statement: parsed.x || undefined
llmFieldsOf(parsed) ==
    [f \in DOMAIN parsed |-> IF Truthy(parsed[f]) THEN parsed[f] ELSE JsUndefined]

\* the merge with the regex result taking priority over the LLM's
mergeRegexFirst(llmFields, regexFields) ==
    [position |-> IF Truthy(llmFields.position) THEN llmFields.position ELSE "DevOps",
     fields |-> [f \in MergeFields |->
                    IF Truthy(regexFields[f]) THEN regexFields[f] ELSE llmFields[f]]]

\* processApiMessage, the branch for a non-null LLM result: position and
\* fields from llmFields, then "fill in missing fields with regex fallback"
\* (the model names the price field salary on both sides)
mergeLlmFields(llmFields, regexFields) ==
    LET fields == [f \in MergeFields |-> llmFields[f]]
    IN  [position |-> IF Truthy(llmFields.position) THEN llmFields.position ELSE "DevOps",
         fields |-> [f \in MergeFields |->
                        IF ~ Truthy(fields[f]) /\ Truthy(regexFields[f])
                        THEN regexFields[f] ELSE fields[f]]]

\* what JSON.parse can hand over for one key: key missing, null, "", a string
ParsedValues(f) == {JsUndefined, JsNull, "", "ai-" \o f}

\* what parseMessageFields yields for one field; only the location fallback
\* pattern can capture blanks and so yield ""
RegexValues(f) ==
    IF f = "location" THEN {JsUndefined, "", "rx-" \o f}
    ELSE IF f = "company" THEN {JsUndefined, "Acme"}
    ELSE {JsUndefined, "rx-" \o f}

ParsedInputs ==
    [salary : ParsedValues("salary"), company : ParsedValues("company"),
     location : ParsedValues("location"), workFormat : ParsedValues("workFormat"),
     employment : ParsedValues("employment"), position : {JsUndefined, "SRE"}]

RegexInputs ==
    [salary : RegexValues("salary"), company : RegexValues("company"),
     location : RegexValues("location"), workFormat : RegexValues("workFormat"),
     employment : RegexValues("employment")]

\* extractFieldsWithLlm returned an object; processApiMessage merges
EvalMerge ==
    /\ arg.fn = "merge"
    /\ ret = <<>>
    /\ ret' = <<mergeLlmFields(llmFieldsOf(arg.parsed), arg.regexFields)>>
    /\ UNCHANGED <<pipeVars, arg>>

InitMerge ==
    /\ PipelineIdle
    /\ arg \in [fn : {"merge"}, parsed : ParsedInputs, regexFields : RegexInputs]
    /\ ret = <<>>

NextMerge == EvalMerge

SpecMerge == InitMerge /\ [][NextMerge]_vars

(***************************************************************************)
(* Keyword filter and field merge: C9 - C10                                *)
(***************************************************************************)
\* the hashtag tokens of a text: '#' followed by a maximal run of tag characters
HashtagTokens(text) ==
    {SubSeq(text, ab[1], ab[2]) :
        ab \in {x \in (1..Len(text)) \X (1..Len(text)) :
                   /\ x[1] < x[2]
                   /\ text[x[1]] = "#"
                   /\ \A k \in (x[1] + 1)..x[2] : text[k] \in TagChars
                   /\ (x[2] = Len(text) \/ text[x[2] + 1] \notin TagChars)}}

\* C9 as written: with an empty keyword set every post passes; otherwise a
\* post passes iff one of its hashtag tokens, lowercased, equals
\* '#' + lowercase keyword for a configured keyword.
C9_HashPlusLowercaseKeyword ==
    (arg.fn = "keywordGate" /\ ret # <<>>) =>
        LET configured == Range(parseListFromConfig(arg.keywordsRaw))
        IN  ret[1] <=>
               \/ configured = {}
               \/ \E tok \in HashtagTokens(arg.text), k \in configured :
                     toLowerCase(tok) = <<"#">> \o toLowerCase(k)

\* C9 amended: with an empty keyword set every post passes; otherwise a post
\* passes iff one of its hashtag tokens, lowercased, equals the '#'-prefixed
\* lowercase form of a configured keyword: the lowercase keyword itself when
\* it already starts with '#', else '#' + lowercase keyword.
C9_HashPrefixedForm ==
    (arg.fn = "keywordGate" /\ ret # <<>>) =>
        LET configured == Range(parseListFromConfig(arg.keywordsRaw))
        IN  ret[1] <=>
               \/ configured = {}
               \/ \E tok \in HashtagTokens(arg.text), k \in configured :
                     toLowerCase(tok) = IF k[1] = "#" THEN toLowerCase(k)
                                        ELSE <<"#">> \o toLowerCase(k)

\* a keyword configured with its '#' lets through a post carrying that
\* hashtag in upper case
C9_Witness ==
    /\ arg.fn = "keywordGate"
    /\ arg.keywordsRaw = <<"#", "a">>
    /\ arg.text = <<"b", " ", "#", "A">>
    /\ ret = <<TRUE>>

\* an AI value counts as present when it is neither missing, null nor empty
Present(v) == v \notin {JsUndefined, JsNull, ""}

RECURSIVE collapseSpaces(_)
collapseSpaces(s) ==
    IF s = <<>> THEN <<>>
    ELSE IF Head(s) \in SpaceChars
         THEN LET e == RunEnd(s, 1, SpaceChars)
              IN  <<" ">> \o collapseSpaces(SubSeq(s, e + 1, Len(s)))
         ELSE <<Head(s)>> \o collapseSpaces(Tail(s))

\* callLlmGenerate: undefined when the call fails in any way (the outer catch)
\* or the model's text is blank, else the text trimmed with blanks collapsed
callLlmGenerate(callOk, raw) ==
    IF ~ callOk \/ raw = <<>> THEN <<>>
    ELSE LET text == trim(raw[1])
         IN  IF text = <<>> THEN <<>> ELSE <<trim(collapseSpaces(text))>>

\* Array.prototype.join
RECURSIVE join(_, _)
join(q, sep) ==
    IF q = <<>> THEN <<>>
    ELSE IF Len(q) = 1 THEN q[1]
    ELSE q[1] \o sep \o join(Tail(q), sep)

\* the fixed phrases of the template, each kept as one element of the text:
\* ", добрый день!", "Добрый день!", " Интересует вакансия ",
\* " Можем обсудить подробнее?"
PhraseNamedGreeting == <<"<, dobryj den!>">>

PhraseGreeting == <<"<Dobryj den!>">>

PhraseInterested == <<"< Interesuet vakansiya >">>

PhraseDiscuss == <<"< Mozhem obsudit podrobnee?>">>

DevOpsChars == <<"D","e","v","O","p","s">>

\* buildTemplateReply; publisherName, company and position are optional strings
buildTemplateReply(input) ==
    LET techs == join(slice0(input.stack, 2), <<"/">>)
        who == IF input.position # <<>> /\ input.position[1] # <<>>
               THEN input.position[1] ELSE DevOpsChars
        companyPart == IF input.company # <<>> /\ input.company[1] # <<>>
                       THEN <<" ">> \o input.company[1] ELSE <<>>
        techPart == IF techs # <<>> THEN <<" ">> \o techs ELSE <<>>
        greeting == IF input.publisherName # <<>> /\ input.publisherName[1] # <<>>
                    THEN input.publisherName[1] \o PhraseNamedGreeting
                    ELSE PhraseGreeting
    IN  greeting \o PhraseInterested \o who \o companyPart \o <<".">>
        \o (IF techPart # <<>> THEN <<" ">> \o techPart ELSE <<>>)
        \o PhraseDiscuss

ReplyMinLen == 10

\* reply generation that stores whatever the model returned
replySynthesisNoThreshold(configured, callOk, raw, input) ==
    IF ~ configured THEN <<>>
    ELSE LET llmText == callLlmGenerate(callOk, raw)
         IN  IF llmText = <<>> THEN <<buildTemplateReply(input)>> ELSE llmText

\* processApiMessage, reply generation: llmReplyText
replySynthesis(configured, callOk, raw, input) ==
    IF ~ configured THEN <<>>
    ELSE LET llmText == callLlmGenerate(callOk, raw)
             replyText == IF llmText = <<>> \/ llmText[1] = <<>>
                             \/ Len(trim(llmText[1])) < ReplyMinLen
                          THEN <<buildTemplateReply(input)>>
                          ELSE llmText
         IN  IF replyText[1] # <<>> THEN replyText ELSE <<>>

(***************************************************************************)
(* Field extraction: extractFieldsWithLlm and its use in processApiMessage *)
(***************************************************************************)
\* the keys of the extractor's result that the model follows
LlmKeys == MergeFields \cup {"position", "summary"}

\* an array-valued key: whether the JSON value is an array, and its items
NoArray == [isArray |-> FALSE, items |-> <<>>]

NoProps == [k \in LlmKeys |-> JsUndefined]

\* the three shapes a call can end in
NullResult == [kind |-> "null", fields |-> NoProps, tasks |-> NoArray]

ThrowResult == [kind |-> "throw", fields |-> NoProps, tasks |-> NoArray]

\* try { body } catch { return handler }
catch(body, handler) == IF body.kind = "throw" THEN handler ELSE body

\* parsed.x of what JSON.parse returned: only an object has the keys
propsOf(payload) == IF payload.kind = "json-object" THEN payload.props ELSE NoProps

tasksOf(payload) == IF payload.kind = "json-object" THEN payload.tasks ELSE NoArray

\* the inner try block: JSON.parse(cleaned) and the return statement;
\* JSON.parse throws on bad syntax, parsed.position throws on JSON null
parseAndReturn(payload) ==
    IF payload.kind \in {"syntax-error", "json-null"} THEN ThrowResult
    ELSE [kind |-> "object",
          fields |-> llmFieldsOf(propsOf(payload)),
          tasks |-> IF tasksOf(payload).isArray THEN tasksOf(payload) ELSE NoArray]

\* the outer try block: early returns, awaits that can reject, the parse
extractBody(call, payload) ==
    IF call \in {"no-fetch", "no-api-key", "http-error", "empty"} THEN NullResult
    ELSE IF call \in {"transport-error", "abort", "json-rejects"} THEN ThrowResult
    ELSE catch(parseAndReturn(payload), NullResult)

\* extractFieldsWithLlm; the extract-specific endpoint and model fall back
\* to the generic ones, which env holds
extractFieldsWithLlm(env, call, payload) ==
    IF ~ env.llmEnabled \/ ~ env.llmEndpoint \/ ~ env.llmModel THEN NullResult
    ELSE catch(extractBody(call, payload), NullResult)

\* this.llmEnabled && this.llmEndpoint && this.llmModel
llmConfigured(env) == env.llmEnabled /\ env.llmEndpoint /\ env.llmModel

\* the regex-only branch: parseMessageFields wholesale, placeholder position
regexOnly(regexFields) ==
    [position |-> "DevOps", fields |-> regexFields, tasks |-> <<>>,
     summary |-> JsUndefined]

\* field extraction whose fallback leaves the position unset
fieldExtractionNoPlaceholder(env, call, payload, regexFields) ==
    IF llmConfigured(env)
    THEN LET llmFields == extractFieldsWithLlm(env, call, payload)
         IN  IF llmFields.kind = "object"
             THEN LET merged == mergeLlmFields(llmFields.fields, regexFields)
                  IN  [position |-> merged.position, fields |-> merged.fields,
                       tasks |-> llmFields.tasks.items,
                       summary |-> llmFields.fields.summary]
             ELSE [regexOnly(regexFields) EXCEPT !.position = JsUndefined]
    ELSE regexOnly(regexFields)

\* processApiMessage, "Parse fields": position, fields, tasks, summary
fieldExtraction(env, call, payload, regexFields) ==
    IF llmConfigured(env)
    THEN LET llmFields == extractFieldsWithLlm(env, call, payload)
         IN  IF llmFields.kind = "throw" THEN regexOnly(regexFields)
             ELSE IF llmFields.kind = "object"
             THEN LET merged == mergeLlmFields(llmFields.fields, regexFields)
                  IN  [position |-> merged.position, fields |-> merged.fields,
                       tasks |-> llmFields.tasks.items,
                       summary |-> llmFields.fields.summary]
             ELSE regexOnly(regexFields)
    ELSE regexOnly(regexFields)

\* the characters of the position and company values the model uses
charsOf(v) ==
    IF v = "SRE" THEN <<"S","R","E">>
    ELSE IF v = "Acme" THEN <<"A","c","m","e">>
    ELSE IF v = "ai-company" THEN <<"a","i","-","c","o">>
    ELSE DevOpsChars

optChars(v) == IF Truthy(v) THEN <<charsOf(v)>> ELSE <<>>

\* the columns of vacancyRepository.create that extraction and reply
\* generation fill
vacancyColumns(env, call, payload, regexFields, genOk, genRaw) ==
    LET x == fieldExtraction(env, call, payload, regexFields)
    IN  [position |-> x.position,
         company |-> x.fields.company, salary |-> x.fields.salary,
         location |-> x.fields.location, workFormat |-> x.fields.workFormat,
         employment |-> x.fields.employment,
         tasks |-> x.tasks, summary |-> x.summary,
         llmReply |-> replySynthesis(llmConfigured(env), genOk, genRaw,
                         [publisherName |-> <<>>, company |-> optChars(x.fields.company),
                          position |-> optChars(x.position), stack |-> <<>>])]

ExtractCalls ==
    {"no-fetch", "no-api-key", "transport-error", "abort", "http-error",
     "json-rejects", "empty", "text"}

\* {"company": null, "position": "SRE"}; every key a string and tasks an
\* array; {}; {"company": "", "tasks": "deploy"}
ObjectSamples ==
    { [kind |-> "json-object", tasks |-> NoArray,
       props |-> [NoProps EXCEPT !.company = JsNull, !.position = "SRE"]],
      [kind |-> "json-object", tasks |-> [isArray |-> TRUE, items |-> <<"deploy">>],
       props |-> [k \in LlmKeys |-> IF k = "position" THEN "SRE" ELSE "ai-" \o k]],
      [kind |-> "json-object", tasks |-> NoArray, props |-> NoProps],
      [kind |-> "json-object", tasks |-> NoArray,
       props |-> [NoProps EXCEPT !.company = ""]] }

\* what the cleaned response text is to JSON.parse
ExtractPayloads ==
    {[kind |-> k, tasks |-> NoArray, props |-> NoProps] :
        k \in {"syntax-error", "json-null", "json-scalar", "json-array"}}
    \cup ObjectSamples

LongReply == <<"I"," ","a","m"," ","k","e","e","n","!">>

\* the reply call: failed, answered "ok", answered "I am keen!"
GenSamples ==
    { [ok |-> FALSE, raw |-> <<>>], [ok |-> TRUE, raw |-> <<<<"o","k">>>>],
      [ok |-> TRUE, raw |-> <<LongReply>>] }

\* one message goes through field extraction and reply generation
EvalExtract ==
    /\ arg.fn = "extract"
    /\ ret = <<>>
    /\ ret' = <<[llm |-> extractFieldsWithLlm(arg.env, arg.call, arg.payload),
                 columns |-> vacancyColumns(arg.env, arg.call, arg.payload,
                                            arg.regexFields, arg.gen.ok, arg.gen.raw)]>>
    /\ UNCHANGED <<pipeVars, arg>>

InitExtract ==
    /\ PipelineIdle
    /\ arg \in [fn : {"extract"},
                env : [llmEnabled : BOOLEAN, llmEndpoint : BOOLEAN, llmModel : BOOLEAN],
                call : ExtractCalls, payload : ExtractPayloads,
                regexFields : RegexInputs, gen : GenSamples]
    /\ ret = <<>>

NextExtract == EvalExtract

SpecExtract == InitExtract /\ [][NextExtract]_vars

MaxGenLen == 11

GenAlphabet == {"x", " "}

\* the model's answer to the reply prompt: none, or a text of x's and blanks
GenRaws ==
    {<<>>} \cup {<<t>> : t \in UNION {[1..n -> GenAlphabet] : n \in 0..MaxGenLen}}

\* what reply generation hands to buildTemplateReply
ReplyInputs ==
    [publisherName : {<<>>, <<<<"A","n","n","a">>>>},
     company : {<<>>, <<charsOf("Acme")>>},
     position : {<<DevOpsChars>>, <<charsOf("SRE")>>},
     stack : {<<>>, <<<<"k","8","s">>, <<"h","e","l","m">>, <<"a","w","s">>>>}]

\* reply generation for one message, the LLM being configured
EvalReply ==
    /\ arg.fn = "reply"
    /\ ret = <<>>
    /\ ret' = <<replySynthesis(TRUE, arg.callOk, arg.raw, arg.input)>>
    /\ UNCHANGED <<pipeVars, arg>>

InitReply ==
    /\ PipelineIdle
    /\ arg \in [fn : {"reply"}, callOk : BOOLEAN, raw : GenRaws, input : ReplyInputs]
    /\ ~ arg.callOk => arg.raw = <<>>
    /\ ret = <<>>

NextReply == EvalReply

SpecReply == InitReply /\ [][NextReply]_vars

(***************************************************************************)
(* AI extraction and reply synthesis: C11 - C13                            *)
(***************************************************************************)
\* the ways the extractor yields no usable result: AI disabled, endpoint or
\* model missing, no fetch or API key, transport error, abort, HTTP error,
\* unreadable body, empty response, JSON syntax error, exception on JSON null
NoUsableResult ==
    \/ ~ arg.env.llmEnabled \/ ~ arg.env.llmEndpoint \/ ~ arg.env.llmModel
    \/ arg.call # "text"
    \/ arg.payload.kind \in {"syntax-error", "json-null"}

\* the same message with the AI switched off
ColumnsWithAiDisabled ==
    vacancyColumns([arg.env EXCEPT !.llmEnabled = FALSE], arg.call, arg.payload,
                   arg.regexFields, arg.gen.ok, arg.gen.raw)

ExtractionColumns ==
    {"position", "company", "salary", "location", "workFormat", "employment",
     "tasks", "summary"}

\* C11 as written: whenever the extractor yields no usable result, the
\* persisted record is the one a run with AI disabled persists.
C11_SameRecordAsAiDisabled ==
    (arg.fn = "extract" /\ ret # <<>> /\ NoUsableResult)
        => ret[1].columns = ColumnsWithAiDisabled

\* C11 amended: whenever the extractor yields no usable result, the columns
\* filled by extraction are those of a run with AI disabled (heuristic
\* fields wholesale, position the placeholder, tasks empty, summary absent);
\* the llmReply column is absent exactly when the LLM is not configured.
C11_SameExtractionAsAiDisabled ==
    (arg.fn = "extract" /\ ret # <<>> /\ NoUsableResult)
        => /\ \A c \in ExtractionColumns : ret[1].columns[c] = ColumnsWithAiDisabled[c]
           /\ ret[1].columns.position = "DevOps"
           /\ ret[1].columns.company = arg.regexFields.company
           /\ ret[1].columns.salary = arg.regexFields.salary
           /\ ret[1].columns.location = arg.regexFields.location
           /\ ret[1].columns.workFormat = arg.regexFields.workFormat
           /\ ret[1].columns.employment = arg.regexFields.employment
           /\ ret[1].columns.tasks = <<>>
           /\ ret[1].columns.summary = JsUndefined
           /\ (ret[1].columns.llmReply = <<>> <=> ~ llmConfigured(arg.env))

\* the LLM is configured, the extraction call ends in an HTTP error, the
\* heuristics found a company: regex columns, and a reply all the same
C11_Witness ==
    /\ arg.fn = "extract" /\ ret # <<>>
    /\ llmConfigured(arg.env) /\ arg.call = "http-error"
    /\ arg.regexFields.company = "Acme"
    /\ ret[1].columns.company = "Acme" /\ ret[1].columns.position = "DevOps"
    /\ ret[1].columns.llmReply # <<>>

\* C12: extractFieldsWithLlm never raises; it returns null or a structured
\* result, and null whenever the response text is not the JSON of an object
\* (syntax error, null, a scalar, an array).
C12_NullOrObjectNeverPartial ==
    (arg.fn = "extract" /\ ret # <<>>)
        => /\ ret[1].llm.kind \in {"null", "object"}
           /\ (arg.call = "text" /\ arg.payload.kind # "json-object")
                 => ret[1].llm.kind = "null"

\* the text t has the text sub in it
Contains(t, sub) ==
    \E i \in 1..(Len(t) - Len(sub) + 1) : SubSeq(t, i, i + Len(sub) - 1) = sub

\* C13: with the LLM configured, the stored reply is the template when the
\* generated text is absent or has fewer than 10 characters after trimming,
\* and the generated text otherwise; the template contains the position and,
\* when there is a company, the company.
C13_TemplateBelowThreshold ==
    (arg.fn = "reply" /\ ret # <<>>) =>
        LET generated == callLlmGenerate(arg.callOk, arg.raw)
            template == buildTemplateReply(arg.input)
        IN  /\ IF generated = <<>> \/ Len(trim(generated[1])) < 10
               THEN ret[1] = <<template>>
               ELSE ret[1] = generated
            /\ Contains(template, arg.input.position[1])
            /\ arg.input.company # <<>> => Contains(template, arg.input.company[1])

\* the model answered nine characters padded with blanks: the template is
\* stored, with position SRE and company Acme in it
C13_Witness ==
    /\ arg.fn = "reply" /\ ret # <<>>
    /\ arg.callOk /\ arg.raw # <<>> /\ Len(arg.raw[1]) = 11
    /\ Len(trim(arg.raw[1])) = 9
    /\ arg.input.company = <<charsOf("Acme")>>
    /\ arg.input.position = <<charsOf("SRE")>>
    /\ ret[1] = <<buildTemplateReply(arg.input)>>
    /\ Contains(ret[1][1], charsOf("SRE")) /\ Contains(ret[1][1], charsOf("Acme"))

(***************************************************************************)
(* Records are kept: C14                                                   *)
(***************************************************************************)
\* C14: no step of the pipeline (processApiMessage with sendDmReplies, on
\* the live and the backfill path) removes a record: every record there
\* before a step is there after it, under the same id and (channelId,
\* messageId).
C14_PipelineKeepsRecords ==
    [][ \A r \in vacancies :
           \E q \in vacancies' :
              /\ q.id = r.id
              /\ q.channelId = r.channelId /\ q.messageId = r.messageId ]_vars

\* a post that already had a record went through the pipeline once more:
\* its save bounced, a DM went out, the update found the old record
C14_Witness ==
    \E i \in Invs :
        /\ pc[i] = "done" /\ loc[i].saved = "dup" /\ loc[i].update = "ok"
        /\ \E r \in RowsOfPost(i) : r.id = 1 /\ r.status = "sent"

(***************************************************************************)
(* The admin bot: TelegramBotService                                       *)
(***************************************************************************)
\* String.prototype.split(/[,\s]+/): runs of separators split once
RECURSIVE splitRuns(_, _, _)
splitRuns(s, seps, acc) ==
    IF s = <<>> THEN <<acc>>
    ELSE IF Head(s) \in seps
         THEN LET e == RunEnd(s, 1, seps)
              IN  <<acc>> \o splitRuns(SubSeq(s, e + 1, Len(s)), seps, <<>>)
         ELSE splitRuns(Tail(s), seps, Append(acc, Head(s)))

\* Number(s) for the strings the model has: blank is 0, digits with an
\* optional minus sign are their value, anything else is NaN
jsNumber(s) ==
    LET t == trim(s)
    IN  IF t = <<>> THEN [finite |-> TRUE, value |-> 0]
        ELSE IF isDigits(t) THEN [finite |-> TRUE, value |-> digitsValue(t)]
        ELSE IF Len(t) > 1 /\ t[1] = "-" /\ isDigits(Tail(t))
             THEN [finite |-> TRUE, value |-> 0 - digitsValue(Tail(t))]
             ELSE [finite |-> FALSE, value |-> 0]

\* constructor: this.allowedUsers (as a set; only membership is used)
allowedUsersOf(raw) ==
    IF raw = <<>> THEN {}
    ELSE LET parts == splitRuns(raw, {","} \cup SpaceChars, <<>>)
         IN  {jsNumber(parts[i]).value :
                 i \in {j \in 1..Len(parts) :
                           jsNumber(parts[j]).finite /\ jsNumber(parts[j]).value > 0}}

\* isUserAllowed
isUserAllowed(allowedUsers, userId) ==
    IF allowedUsers = {} THEN TRUE ELSE userId \in allowedUsers

\* the access middleware; sender is <<>> when ctx.from is missing
middleware(allowedUsers, sender) ==
    IF sender = <<>> \/ sender[1] = 0 THEN "no-user"
    ELSE IF ~ isUserAllowed(allowedUsers, sender[1]) THEN "denied"
    ELSE "next"

\* values of TELEGRAM_BOT_ALLOWED_USERS: unset, "7", "7, 9", " 7 ,", "abc", "0"
AllowedUsersRaws ==
    { <<>>, <<"7">>, <<"7", ",", " ", "9">>, <<" ", "7", " ", ",">>,
      <<"a", "b", "c">>, <<"0">> }

\* user ids of senders; <<>> is an update without ctx.from
Senders == {<<>>, <<7>>, <<8>>}

\* commands and menu buttons: they only read the table
AdminCommands ==
    {"start", "help", "stats", "list", "recent", "search", "vacancy", "upload_cv_prompt"}

\* actions of inline buttons
CallbackActions ==
    {"back_to_list", "list", "recent", "search", "view", "mark_sent",
     "mark_processed", "delete", "refresh", "send_cv"}

\* callback actions that are handled before a vacancy id is looked for
PagingActions == {"back_to_list", "list", "recent", "search"}

AdminVacancyIds == {1, 2}

AdminUpdates ==
    [kind : {"command"}, name : AdminCommands, vacancyId : {0}, sender : Senders]
    \cup [kind : {"document"}, name : {"document"}, vacancyId : {0}, sender : Senders]
    \cup [kind : {"callback"}, name : CallbackActions,
          vacancyId : {0} \cup AdminVacancyIds, sender : Senders]

\* vacancyRepository.findOne({ where: { id } })
findOne(rows, id) == {r \in rows : r.id = id}

\* the callback_query handler's effect on the table
callbackEffect(rows, action, vacancyId) ==
    IF action \in PagingActions THEN [rows |-> rows, ran |-> action]
    ELSE IF vacancyId = 0 THEN [rows |-> rows, ran |-> "no-id"]
    ELSE IF findOne(rows, vacancyId) = {} THEN [rows |-> rows, ran |-> "not-found"]
    ELSE LET vacancy == CHOOSE r \in findOne(rows, vacancyId) : TRUE
         IN  IF action = "mark_sent"
             THEN [rows |-> (rows \ {vacancy})
                              \cup {[vacancy EXCEPT !.status = "sent", !.dmSent = TRUE]},
                   ran |-> action]
             ELSE IF action = "mark_processed"
             THEN [rows |-> (rows \ {vacancy})
                              \cup {[vacancy EXCEPT !.status = "processed", !.dmSent = FALSE]},
                   ran |-> action]
             ELSE IF action = "delete"
             THEN [rows |-> rows \ {vacancy}, ran |-> action]
             ELSE [rows |-> rows, ran |-> action]

\* a command or menu button arrives: middleware, then its handler
AdminCommand(u) ==
    /\ u.kind = "command"
    /\ LET m == middleware(allowedUsersOf(cfg.allowedUsersRaw), u.sender)
       IN  ret' = <<[ran |-> IF m = "next" THEN u.name ELSE m]>>
    /\ arg' = u
    /\ UNCHANGED <<cfg, now, redis, vacancies, nextId, stats, pc, cur, loc, lastOk, feed>>

\* a document arrives: middleware, then the CV upload handler
AdminDocument(u) ==
    /\ u.kind = "document"
    /\ LET m == middleware(allowedUsersOf(cfg.allowedUsersRaw), u.sender)
       IN  ret' = <<[ran |-> IF m = "next" THEN "cv_upload" ELSE m]>>
    /\ arg' = u
    /\ UNCHANGED <<cfg, now, redis, vacancies, nextId, stats, pc, cur, loc, lastOk, feed>>

\* an inline button is pressed: middleware, then the callback_query handler
AdminCallback(u) ==
    /\ u.kind = "callback"
    /\ LET m == middleware(allowedUsersOf(cfg.allowedUsersRaw), u.sender)
           e == callbackEffect(vacancies, u.name, u.vacancyId)
       IN  IF m = "next"
           THEN /\ vacancies' = e.rows
                /\ ret' = <<[ran |-> e.ran]>>
           ELSE /\ vacancies' = vacancies
                /\ ret' = <<[ran |-> m]>>
    /\ arg' = u
    /\ UNCHANGED <<cfg, now, redis, nextId, stats, pc, cur, loc, lastOk, feed>>

\* the table as the pipeline can have left it: up to two records of channel
\* 100, each processed or sent
AdminTables ==
    {t \in SUBSET {[newVacancy(id, <<"1","0","0">>, id) EXCEPT !.status = st,
                                                           !.dmSent = (st = "sent")] :
                      id \in AdminVacancyIds, st \in {"processed", "sent"}} :
        \A r1, r2 \in t : r1.id = r2.id => r1 = r2}

InitAdmin ==
    /\ cfg \in [allowedUsersRaw : AllowedUsersRaws]
    /\ vacancies \in AdminTables
    /\ nextId = 3
    /\ feed = {}
    /\ now = 0
    /\ redis = <<>>
    /\ stats = [totalProcessed |-> 0, skippedNoKeyword |-> 0, skippedDuplicate |-> 0,
                skippedNotAllowed |-> 0, successfullyProcessed |-> 0]
    /\ pc = [i \in Invs |-> "idle"]
    /\ cur = [i \in Invs |-> "p1"]
    /\ loc = [i \in Invs |-> Fresh]
    /\ lastOk = [p \in PostNames |-> -1]
    /\ IdleFn

NextAdmin ==
    \E u \in AdminUpdates : AdminCommand(u) \/ AdminDocument(u) \/ AdminCallback(u)

SpecAdmin == InitAdmin /\ [][NextAdmin]_vars

\* a record leaves the table only in the step of a 'delete' callback for
\* its id that got past the middleware
AdminRemovesOnlyOnDelete ==
    [][ \A r \in vacancies :
           (\A q \in vacancies' : q.id # r.id)
              => /\ arg'.kind = "callback" /\ arg'.name = "delete"
                 /\ arg'.vacancyId = r.id
                 /\ ret' = <<[ran |-> "delete"]>> ]_vars

(***************************************************************************)
(* Admin access control: C16                                               *)
(***************************************************************************)
\* the ids written in TELEGRAM_BOT_ALLOWED_USERS, read off the text: the
\* maximal digit runs that stand alone between separators
WrittenIds(raw) ==
    {digitsValue(SubSeq(raw, ab[1], ab[2])) :
        ab \in {x \in (1..Len(raw)) \X (1..Len(raw)) :
                   /\ x[1] <= x[2]
                   /\ \A k \in x[1]..x[2] : raw[k] \in Digits
                   /\ (x[1] = 1 \/ raw[x[1] - 1] \in {",", " "})
                   /\ (x[2] = Len(raw) \/ raw[x[2] + 1] \in {",", " "})}}

HandlerRan == ret # <<>> /\ ret[1].ran \notin {"denied", "no-user"}

\* C16: with a non-empty TELEGRAM_BOT_ALLOWED_USERS no handler runs for an
\* update whose sender is missing or not among the listed ids; with an empty
\* one every sender is allowed.
C16_OnlyListedSendersRun ==
    ret # <<>> =>
        IF cfg.allowedUsersRaw # <<>>
        THEN (arg.sender = <<>> \/ arg.sender[1] \notin WrittenIds(cfg.allowedUsersRaw))
                => ~ HandlerRan
        ELSE arg.sender # <<>> => HandlerRan

(***************************************************************************)
(* The admin bot's /recent listing                                         *)
(***************************************************************************)
PageSize == 10

RecentDefault == 10

RecentCap == 50

MaxRecentArg == 50

MaxStore == 25

\* /recent handler: args[0] ? Math.min(Number(args[0]) || 10, 50) : 10;
\* n is <<>> without an argument, else <<the number written>>
recentLimit(n) ==
    IF n = <<>> THEN RecentDefault
    ELSE Min(IF n[1] = 0 THEN RecentDefault ELSE n[1], RecentCap)

\* Math.ceil(a / b) for a >= 0
ceilDiv(a, b) == (a + b - 1) \div b

\* vacancyRepository.find({ order: { createdAt }, skip, take }) on a table of
\* total rows; a row is named by its rank, 1 being the most recent
findPage(total, sortOrder, skip, take) ==
    LET positions == {k \in 1..total : skip < k /\ k <= skip + take}
    IN  IF sortOrder = "DESC" THEN positions
        ELSE {total - k + 1 : k \in positions}

\* showRecent: the rows listed and the navigation buttons offered
showRecent(limit, page, sortOrder, total) ==
    LET skip == (page - 1) * PageSize
        maxItems == Min(limit, total)
        totalPages == ceilDiv(maxItems, PageSize)
        clamped == IF page < 1 THEN (IF 1 > totalPages THEN totalPages ELSE 1)
                   ELSE IF page > totalPages THEN totalPages ELSE page
        rows == findPage(total, sortOrder, skip, PageSize)
    IN  IF total = 0 \/ rows = {}
        THEN [page |-> clamped, sortOrder |-> sortOrder, shown |-> {},
              hasPrev |-> FALSE, hasNext |-> FALSE]
        ELSE [page |-> clamped, sortOrder |-> sortOrder, shown |-> rows,
              hasPrev |-> clamped > 1, hasNext |-> clamped < totalPages]

\* the listing on screen, and every <<sortOrder, page, rank>> listed so far
Listing(view, listed) ==
    [view |-> view,
     listed |-> listed \cup {<<view.sortOrder, view.page, r>> : r \in view.shown}]

\* /recent [n]
RecentCommand ==
    /\ arg.fn = "recent"
    /\ ret = <<>>
    /\ ret' = <<Listing(showRecent(recentLimit(arg.n), 1, "DESC", arg.total), {})>>
    /\ UNCHANGED <<pipeVars, arg>>

\* a navigation button of the listing: recent:page:<page +- 1>:<limit>:<order>
RecentNavigate ==
    /\ arg.fn = "recent"
    /\ ret # <<>>
    /\ \E d \in {-1, 1} :
          /\ IF d = 1 THEN ret[1].view.hasNext ELSE ret[1].view.hasPrev
          /\ ret' = <<Listing(showRecent(recentLimit(arg.n), ret[1].view.page + d,
                                         ret[1].view.sortOrder, arg.total),
                              ret[1].listed)>>
    /\ UNCHANGED <<pipeVars, arg>>

\* the sort button of the listing: recent:page:<page>:<limit>:<other order>
RecentToggleSort ==
    /\ arg.fn = "recent"
    /\ ret # <<>>
    /\ ret[1].view.shown # {}
    /\ ret' = <<Listing(showRecent(recentLimit(arg.n), ret[1].view.page,
                                   IF ret[1].view.sortOrder = "DESC" THEN "ASC" ELSE "DESC",
                                   arg.total),
                        ret[1].listed)>>
    /\ UNCHANGED <<pipeVars, arg>>

InitRecent ==
    /\ PipelineIdle
    /\ arg \in [fn : {"recent"}, n : {<<>>} \cup {<<k>> : k \in 0..MaxRecentArg},
                total : 0..MaxStore]
    /\ ret = <<>>

NextRecent == RecentCommand \/ RecentNavigate \/ RecentToggleSort

SpecRecent == InitRecent /\ [][NextRecent]_vars

(***************************************************************************)
(* /recent n: C17                                                          *)
(***************************************************************************)
\* C17: for n in 1..50, no page of /recent n lists a vacancy outside the n
\* most recent ones, and once the pages have been walked through, the
\* number of vacancies listed is min(n, total).
C17_RecentListsLastN ==
    (arg.fn = "recent" /\ ret # <<>> /\ arg.n # <<>> /\ arg.n[1] \in 1..50) =>
        LET m == Min(arg.n[1], arg.total)
            view == ret[1].view
            walked == {e \in ret[1].listed : e[1] = "DESC"}
        IN  /\ view.sortOrder = "DESC" => view.shown \subseteq 1..m
            /\ (/\ view.sortOrder = "DESC" /\ ~ view.hasNext
                /\ \A p \in 1..view.page : \E e \in walked : e[2] = p)
                  => Cardinality({e[3] : e \in walked}) = m

(***************************************************************************)
(* Userbot start-up: onModuleInit                                          *)
(***************************************************************************)
MaxCalls == 2

\* !s for a string read from the configuration: undefined (<<>>) or ""
Falsy(opt) == opt = <<>> \/ opt[1] = <<>>

\* new TelegramClient(...) and client.connect(), as the library answers
ConnectOutcomes == {"ok", "constructor-throws", "connect-throws"}

Disabled == [threw |-> FALSE, started |-> FALSE, subscribed |-> FALSE,
             backfill |-> "none"]

\* the body of onModuleInit's try block: the client is built and connected,
\* or one of the two calls throws
connectClient(env) ==
    IF env.outcome = "ok" THEN [kind |-> "connected"] ELSE ThrowResult

\* onModuleInit from the try block on; attempt is what the block came to
afterConnect(env, attempt) ==
    IF attempt.kind = "throw"
    THEN [threw |-> TRUE, started |-> FALSE, subscribed |-> FALSE, backfill |-> "none"]
    ELSE IF attempt.kind = "failed"
    THEN Disabled
    ELSE [threw |-> FALSE, started |-> TRUE, subscribed |-> TRUE,
          backfill |-> IF env.backfillOnStart THEN "scheduled" ELSE "none"]

\* onModuleInit without the try/catch around the connection attempt
onModuleInitNoCatch(env) ==
    IF Falsy(env.apiIdStr) \/ Falsy(env.apiHash) \/ Falsy(env.sessionStr)
    THEN Disabled
    ELSE IF ~ jsNumber(env.apiIdStr[1]).finite
    THEN Disabled
    ELSE afterConnect(env, connectClient(env))

\* onModuleInit: what the service holds when it has returned
onModuleInit(env) ==
    IF Falsy(env.apiIdStr) \/ Falsy(env.apiHash) \/ Falsy(env.sessionStr)
    THEN Disabled
    ELSE IF ~ jsNumber(env.apiIdStr[1]).finite
    THEN Disabled
    ELSE afterConnect(env, catch(connectClient(env), [kind |-> "failed"]))

InitEnvs ==
    [fn : {"init"},
     apiIdStr : {<<>>, << <<>> >>, << <<"1", "2">> >>, << <<"a", "b">> >>, << <<" ">> >>},
     apiHash : {<<>>, << <<>> >>, << <<"h">> >>},
     sessionStr : {<<>>, << <<>> >>, << <<"s">> >>},
     outcome : ConnectOutcomes,
     backfillOnStart : BOOLEAN]

\* NestJS calls onModuleInit once
ModuleInit ==
    /\ arg.fn = "init"
    /\ ret = <<>>
    /\ ret' = <<[state |-> onModuleInit(arg), live |-> 0, backfilled |-> 0]>>
    /\ UNCHANGED <<pipeVars, arg>>

\* the subscribed handler receives a channel message and calls
\* processApiMessage
NewMessageEvent ==
    /\ arg.fn = "init"
    /\ ret # <<>>
    /\ ret[1].state.subscribed
    /\ ret[1].live < MaxCalls
    /\ ret' = <<[ret[1] EXCEPT !.live = @ + 1]>>
    /\ UNCHANGED <<pipeVars, arg>>

\* void this.runBackfill(): a message of the history goes to
\* processApiMessage
BackfillMessage ==
    /\ arg.fn = "init"
    /\ ret # <<>>
    /\ ret[1].state.backfill = "scheduled"
    /\ ret[1].backfilled < MaxCalls
    /\ ret' = <<[ret[1] EXCEPT !.backfilled = @ + 1]>>
    /\ UNCHANGED <<pipeVars, arg>>

\* runBackfill has gone through the history
BackfillEnd ==
    /\ arg.fn = "init"
    /\ ret # <<>>
    /\ ret[1].state.backfill = "scheduled"
    /\ ret' = <<[ret[1] EXCEPT !.state.backfill = "done"]>>
    /\ UNCHANGED <<pipeVars, arg>>

InitStartup ==
    /\ PipelineIdle
    /\ arg \in InitEnvs
    /\ ret = <<>>

NextStartup == ModuleInit \/ NewMessageEvent \/ BackfillMessage \/ BackfillEnd

SpecStartup == InitStartup /\ [][NextStartup]_vars

(***************************************************************************)
(* Start-up failures disable the userbot: C15                              *)
(***************************************************************************)
\* a mandatory identifier is missing or empty, the API id is not a number,
\* or the connection attempt fails
StartupFails(env) ==
    \/ Falsy(env.apiIdStr) \/ Falsy(env.apiHash) \/ Falsy(env.sessionStr)
    \/ ~ jsNumber(env.apiIdStr[1]).finite
    \/ env.outcome # "ok"

\* C15: when a mandatory identifier is missing, the API id is not a number or
\* the connection attempt fails, onModuleInit returns without throwing and
\* the userbot stays disabled: no handler subscribed, no backfill started,
\* no post ever handed to the pipeline.
C15_StartupFailureDisables ==
    (arg.fn = "init" /\ ret # <<>> /\ StartupFails(arg)) =>
        /\ ~ ret[1].state.threw
        /\ ~ ret[1].state.started
        /\ ~ ret[1].state.subscribed
        /\ ret[1].state.backfill = "none"
        /\ ret[1].live = 0 /\ ret[1].backfilled = 0

C15_Witness ==
    /\ arg.fn = "init" /\ ret # <<>>
    /\ ~ Falsy(arg.apiIdStr) /\ ~ Falsy(arg.apiHash) /\ ~ Falsy(arg.sessionStr)
    /\ jsNumber(arg.apiIdStr[1]).finite
    /\ arg.outcome = "connect-throws"
    /\ arg.backfillOnStart
    /\ ret[1].state = Disabled

(***************************************************************************)
(* RedisService: ping and the module lifecycle                             *)
(***************************************************************************)
MaxPings == 2

\* what client.ping() comes to: an answer of the server, or a rejection
PingAnswers == {"PONG", "ERROR", "rejected"}

\* what client.connect() and client.quit() come to
CallOutcomes == {"resolved", "rejected"}

\* ping that lets a rejected client.ping() through
pingNoCatch(isOpen, answer) ==
    IF ~ isOpen THEN "false"
    ELSE IF answer = "rejected" THEN "threw"
    ELSE IF answer = "PONG" THEN "true" ELSE "false"

\* RedisService.ping
ping(isOpen, answer) ==
    IF ~ isOpen THEN "false"
    ELSE IF answer = "rejected" THEN "false"
    ELSE IF answer = "PONG" THEN "true" ELSE "false"

\* RedisService.onModuleInit: connects, a rejection is caught
redisOnModuleInit(outcome) == [result |-> "resolved", isOpen |-> outcome = "resolved"]

\* RedisService.onModuleDestroy: quits, a rejection is caught
redisOnModuleDestroy(outcome, isOpen) ==
    [result |-> "resolved", isOpen |-> IF outcome = "resolved" THEN FALSE ELSE isOpen]

NoCall == [op |-> "none", isOpen |-> FALSE, answer |-> "none", result |-> "none"]

RedisInit ==
    /\ arg.fn = "redis"
    /\ ret[1].phase = "constructed"
    /\ LET r == redisOnModuleInit(arg.connect)
       IN  ret' = <<[phase |-> "running", isOpen |-> r.isOpen, pings |-> ret[1].pings,
                     last |-> [op |-> "onModuleInit", isOpen |-> FALSE,
                               answer |-> arg.connect, result |-> r.result]]>>
    /\ UNCHANGED <<pipeVars, arg>>

RedisPing ==
    /\ arg.fn = "redis"
    /\ ret[1].pings < MaxPings
    /\ \E answer \in PingAnswers :
          ret' = <<[ret[1] EXCEPT !.pings = @ + 1,
                                  !.last = [op |-> "ping", isOpen |-> ret[1].isOpen,
                                            answer |-> answer,
                                            result |-> ping(ret[1].isOpen, answer)]]>>
    /\ UNCHANGED <<pipeVars, arg>>

\* the connection drops or is re-established: the client's isOpen changes
RedisConnectionChange ==
    /\ arg.fn = "redis"
    /\ ret[1].phase = "running"
    /\ ret' = <<[ret[1] EXCEPT !.isOpen = ~ @]>>
    /\ UNCHANGED <<pipeVars, arg>>

RedisDestroy ==
    /\ arg.fn = "redis"
    /\ ret[1].phase = "running"
    /\ LET r == redisOnModuleDestroy(arg.quit, ret[1].isOpen)
       IN  ret' = <<[phase |-> "destroyed", isOpen |-> r.isOpen, pings |-> ret[1].pings,
                     last |-> [op |-> "onModuleDestroy", isOpen |-> ret[1].isOpen,
                               answer |-> arg.quit, result |-> r.result]]>>
    /\ UNCHANGED <<pipeVars, arg>>

InitRedis ==
    /\ PipelineIdle
    /\ arg \in [fn : {"redis"}, connect : CallOutcomes, quit : CallOutcomes]
    /\ ret = <<[phase |-> "constructed", isOpen |-> FALSE, pings |-> 0, last |-> NoCall]>>

NextRedis == RedisInit \/ RedisPing \/ RedisConnectionChange \/ RedisDestroy

SpecRedis == InitRedis /\ [][NextRedis]_vars

(***************************************************************************)
(* RedisService never throws: C18                                          *)
(***************************************************************************)
\* C18: ping returns true exactly when the client is open and the server
\* answers 'PONG'; with the client closed, another answer or a failed ping
\* call it returns false and does not throw; onModuleInit and
\* onModuleDestroy resolve also when connect or quit fails.
C18_PingTrueIffOpenAndPong ==
    arg.fn = "redis" =>
        LET call == ret[1].last
        IN  /\ call.op = "ping" =>
                 /\ call.result \in {"true", "false"}
                 /\ call.result = "true" <=> (call.isOpen /\ call.answer = "PONG")
            /\ call.op \in {"onModuleInit", "onModuleDestroy"} => call.result = "resolved"

C18_Witness ==
    /\ arg.fn = "redis"
    /\ arg.connect = "resolved"
    /\ ret[1].last = [op |-> "ping", isOpen |-> TRUE, answer |-> "rejected",
                      result |-> "false"]

(***************************************************************************)
(* Order of filter and gate: C19, C20                                      *)
(***************************************************************************)
\* post p has text and an allowed channel, and the keyword filter rejects it
FilteredOut(p) ==
    /\ PostTable[p].text # <<>>
    /\ isChannelAllowed(channelIdentifiers, PostTable[p].peerId)
    /\ ~ KeywordGate[cfg][p]

\* C19 as written: the filter is evaluated on admitted posts only, so an
\* invocation that ended filtered-out has been through the gate and has
\* taken the lease of its post.
C19_FilterAfterGate ==
    \A i \in Invs :
        (pc[i] = "done" /\ loc[i].outcome = "no-keyword")
           => loc[i].gate \in {"created", "error"}

\* C19 amended: the filter is evaluated before the gate. A post the filter
\* rejects never reaches the gate: no store call is made for it, no lease
\* of it ever exists, and every delivery of it ends filtered-out, never as a
\* duplicate.
C19_FilterBeforeGate ==
    \A p \in feed :
        FilteredOut(p) =>
            /\ lastOk[p] = -1
            /\ redisKey(PostTable[p].peerId, PostTable[p].messageId) \notin DOMAIN redis
            /\ \A i \in Invs :
                  (cur[i] = p /\ pc[i] # "idle")
                     => /\ pc[i] = "done"
                        /\ loc[i].outcome = "no-keyword"
                        /\ loc[i].gate = "none"

\* live and backfill both delivered a post the filter rejects
C19_Witness ==
    \E p \in feed :
        /\ FilteredOut(p)
        /\ \A i \in Invs :
              cur[i] = p /\ pc[i] = "done" /\ loc[i].outcome = "no-keyword"
        /\ stats.skippedNoKeyword = 2 /\ stats.skippedDuplicate = 0

\* invocation i has begun extraction, reply synthesis, persistence or dispatch
PipelineBegun(i) ==
    \/ pc[i] \in {"extract", "save", "dm_delay", "dm_target", "dm_update"}
    \/ loc[i].llmReplyText
    \/ loc[i].saved # "none"
    \/ loc[i].targets # <<>>
    \/ loc[i].log # <<>>
    \/ loc[i].update # "none"

\* C20: on the live and on the backfill path alike, no extraction, reply
\* synthesis, persistence or dispatch step of an invocation begins before
\* its markProcessedOnce call has returned true (the marker was created, or
\* the store failed and the gate let the post through); nothing but the
\* gate holds one producer back for the other.
C20_NothingBeforeGate ==
    \A i \in Invs :
        PipelineBegun(i) => loc[i].gate \in {"created", "error"}

\* live and backfill are past the gate at the same time, each on its own post
C20_Witness ==
    /\ cur["live"] # cur["backfill"]
    /\ \A i \in Invs : pc[i] \in {"extract", "save"} /\ loc[i].gate = "created"

(***************************************************************************)
(* The remote calls of the AI extractor and the reply generator            *)
(***************************************************************************)
\* what a pending fetch comes to
FetchOutcomes == {"headers-ok", "http-error", "rejected"}

\* what a pending res.json() comes to, seen through the code that reads it
BodyOutcomes == {"text", "short", "empty", "rejected"}

AiStart ==
    [pc |-> "admitted", timer |-> "off", issued |-> 0, settled |-> <<>>,
     llmFields |-> "pending", reply |-> "pending", saved |-> "none"]

\* apiType === 'openai' && !this.llmApiKey: the step returns before its fetch
NoApiKey == arg.apiType = "openai" /\ ~ arg.llmApiKey

\* a call of the step has settled with outcome o
Settle(o, next) == [next EXCEPT !.settled = Append(ret[1].settled, o)]

\* processApiMessage enters field extraction; extractFieldsWithLlm arms its
\* 60 s timer and issues its fetch, or the regex-only branch runs
AiExtractStart ==
    /\ arg.fn = "ai"
    /\ ret[1].pc = "admitted"
    /\ ret' = <<IF ~ arg.llmConfigured
                THEN [ret[1] EXCEPT !.pc = "extracted", !.llmFields = "off"]
                ELSE IF NoApiKey
                THEN [ret[1] EXCEPT !.pc = "extracted", !.llmFields = "null"]
                ELSE [ret[1] EXCEPT !.pc = "x_fetch", !.timer = "armed", !.issued = 1]>>
    /\ UNCHANGED <<pipeVars, arg>>

\* the extractor's fetch settles: clearTimeout follows a resolved fetch
AiExtractFetchSettles ==
    /\ arg.fn = "ai"
    /\ ret[1].pc = "x_fetch"
    /\ \E o \in FetchOutcomes :
          ret' = <<Settle(o,
                   IF o = "headers-ok"
                   THEN [ret[1] EXCEPT !.pc = "x_json", !.timer = "cleared"]
                   ELSE [ret[1] EXCEPT !.pc = "extracted", !.llmFields = "null",
                                       !.timer = IF o = "http-error" THEN "cleared"
                                                 ELSE "off"])>>
    /\ UNCHANGED <<pipeVars, arg>>

\* the extractor's res.json() settles, and the answer is parsed
AiExtractBodySettles ==
    /\ arg.fn = "ai"
    /\ ret[1].pc = "x_json"
    /\ \E o \in BodyOutcomes :
          ret' = <<Settle(o,
                   [ret[1] EXCEPT !.pc = "extracted", !.timer = "off",
                                  !.llmFields = IF o \in {"text", "short"}
                                                THEN "object" ELSE "null"])>>
    /\ UNCHANGED <<pipeVars, arg>>

\* reply generation: callLlmGenerate arms its 45 s timer and issues its
\* fetch; without a configured LLM the step is skipped
AiReplyStart ==
    /\ arg.fn = "ai"
    /\ ret[1].pc = "extracted"
    /\ ret' = <<IF ~ arg.llmConfigured
                THEN [ret[1] EXCEPT !.pc = "save", !.reply = "none", !.timer = "off"]
                ELSE IF NoApiKey
                THEN [ret[1] EXCEPT !.pc = "save", !.reply = "template",
                                    !.timer = "off"]
                ELSE [ret[1] EXCEPT !.pc = "g_fetch", !.timer = "armed", !.issued = 1,
                                    !.settled = <<>>]>>
    /\ UNCHANGED <<pipeVars, arg>>

\* the generator's first fetch settles
AiReplyFetchSettles ==
    /\ arg.fn = "ai"
    /\ ret[1].pc = "g_fetch"
    /\ \E o \in FetchOutcomes :
          ret' = <<Settle(o,
                   IF o = "headers-ok"
                   THEN [ret[1] EXCEPT !.pc = "g_json", !.timer = "cleared"]
                   ELSE [ret[1] EXCEPT !.pc = "save", !.reply = "template",
                                       !.timer = "off"])>>
    /\ UNCHANGED <<pipeVars, arg>>

\* the generator's first res.json() settles; an empty answer of an Ollama
\* endpoint is followed by the /api/chat fetch, on the same controller
AiReplyBodySettles ==
    /\ arg.fn = "ai"
    /\ ret[1].pc = "g_json"
    /\ \E o \in BodyOutcomes :
          ret' = <<Settle(o,
                   IF o = "text"
                   THEN [ret[1] EXCEPT !.pc = "save", !.reply = "generated",
                                       !.timer = "off"]
                   ELSE IF o = "empty" /\ arg.apiType # "openai"
                   THEN [ret[1] EXCEPT !.pc = "g_chat", !.issued = 2]
                   ELSE [ret[1] EXCEPT !.pc = "save", !.reply = "template",
                                       !.timer = "off"])>>
    /\ UNCHANGED <<pipeVars, arg>>

\* the /api/chat fetch settles
AiChatFetchSettles ==
    /\ arg.fn = "ai"
    /\ ret[1].pc = "g_chat"
    /\ \E o \in FetchOutcomes :
          ret' = <<Settle(o,
                   IF o = "headers-ok"
                   THEN [ret[1] EXCEPT !.pc = "g_chat_json"]
                   ELSE [ret[1] EXCEPT !.pc = "save", !.reply = "template",
                                       !.timer = "off"])>>
    /\ UNCHANGED <<pipeVars, arg>>

\* chatRes.json() settles
AiChatBodySettles ==
    /\ arg.fn = "ai"
    /\ ret[1].pc = "g_chat_json"
    /\ \E o \in BodyOutcomes :
          ret' = <<Settle(o,
                   [ret[1] EXCEPT !.pc = "save", !.timer = "off",
                                  !.reply = IF o = "text" THEN "generated"
                                            ELSE "template"])>>
    /\ UNCHANGED <<pipeVars, arg>>

\* setTimeout(() => controller.abort(), ...) fires: the pending fetch
\* rejects, the catch returns null / undefined, the step is over
AiDeadline ==
    /\ arg.fn = "ai"
    /\ ret[1].pc \in {"x_fetch", "g_fetch"}
    /\ ret[1].timer = "armed"
    /\ ret' = <<IF ret[1].pc = "x_fetch"
                THEN [ret[1] EXCEPT !.pc = "extracted", !.llmFields = "null",
                                    !.timer = "fired"]
                ELSE [ret[1] EXCEPT !.pc = "save", !.reply = "template",
                                    !.timer = "fired"]>>
    /\ UNCHANGED <<pipeVars, arg>>

\* vacancyRepository.save is attempted
AiSave ==
    /\ arg.fn = "ai"
    /\ ret[1].pc = "save"
    /\ \E dbOk \in BOOLEAN :
          ret' = <<[ret[1] EXCEPT !.pc = "done",
                                  !.saved = IF dbOk THEN "ok" ELSE "err"]>>
    /\ UNCHANGED <<pipeVars, arg>>

InitAi ==
    /\ PipelineIdle
    /\ arg \in [fn : {"ai"}, llmConfigured : BOOLEAN, apiType : {"ollama", "openai"},
                llmApiKey : BOOLEAN]
    /\ ret = <<AiStart>>

AiProgram == AiExtractStart \/ AiReplyStart \/ AiSave

NextAi ==
    \/ AiExtractStart \/ AiExtractFetchSettles \/ AiExtractBodySettles
    \/ AiReplyStart \/ AiReplyFetchSettles \/ AiReplyBodySettles
    \/ AiChatFetchSettles \/ AiChatBodySettles
    \/ AiDeadline \/ AiSave

SpecAi == InitAi /\ [][NextAi]_vars

\* the program's own steps and its timers always run; the remote service
\* answers or not, as it pleases
SpecAiFair == SpecAi /\ WF_vars(AiProgram) /\ WF_vars(AiDeadline)


(***************************************************************************)
(* Deadlines of the remote calls: C21, C28                                 *)
(***************************************************************************)
\* a remote call of the current step is pending
AiPending == ret[1].pc \in {"x_fetch", "x_json", "g_fetch", "g_json", "g_chat", "g_chat_json"}

\* C21: whatever the AI service does, an admitted post reaches the
\* persistence attempt: extraction and reply generation never block the
\* pipeline.
C21_ReachesPersistenceAttempt ==
    (arg.fn = "ai" /\ ret[1].pc = "admitted") ~> (ret[1].pc \in {"save", "done"})

\* C28: every fetch the extractor and the reply generator issue, the
\* generator's second /api/chat fetch included, is pending under an armed
\* deadline timer, and once a deadline has fired the step issues no
\* further call.
C28_EveryCallUnderDeadline ==
    arg.fn = "ai" =>
        /\ ret[1].pc \in {"x_fetch", "g_fetch", "g_chat"} => ret[1].timer = "armed"
        /\ ret[1].timer = "fired" => ~ AiPending


(***************************************************************************)
(* Failed saves, and what the dispatcher depends on: C22 - C24             *)
(***************************************************************************)
\* the lease taken at time t is still within its window
InWindow(t) == now - t < 7 * 86400

\* C22 as written: once the save of a post has failed, no later delivery of
\* that post within the lease window gets past the gate.
C22_NoAdmissionAfterFailedSave ==
    [][ \A i, j \in Invs :
          (/\ i # j /\ cur[i] = cur[j]
           /\ loc[i].saved = "err" /\ InWindow(loc[i].gateAt)
           /\ pc[j] = "gate")
             => pc'[j] # "extract" ]_vars

\* C22 amended: a failed save is not retried; the lease its run created
\* stays in place for its window, and a later delivery of the post in that
\* window whose store call succeeds is skipped as a duplicate. (A delivery
\* whose store call fails is let through, and a run admitted that way left
\* no lease.)
C22_FailedSaveKeepsLease ==
    [][ \A i \in Invs :
          loc[i].saved = "err" =>
            /\ pc'[i] # "save"
            /\ (loc[i].gate = "created" /\ InWindow(loc[i].gateAt)) =>
                 /\ redisLive(redis, redisKey(Post(i).peerId, Post(i).messageId), now)
                 /\ \A j \in Invs :
                       (j # i /\ cur[j] = cur[i] /\ pc[j] = "gate" /\ pc'[j] # "gate"
                          /\ loc'[j].gate # "error")
                          => /\ pc'[j] = "done"
                             /\ loc'[j].outcome = "duplicate" ]_vars

\* a run's save failed under the lease it created, and the other producer's
\* delivery of the same post was stopped as a duplicate
C22_Witness ==
    \E i, j \in Invs :
        /\ i # j /\ cur[i] = cur[j]
        /\ loc[i].saved = "err" /\ loc[i].gate = "created"
        /\ pc[j] = "done" /\ loc[j].outcome = "duplicate" /\ loc[j].seen
        /\ RowsOfPost(i) = {}

\* invocation i is in, or has been through, the dispatch loop
Dispatching(i) ==
    \/ pc[i] \in {"dm_delay", "dm_target", "dm_update"}
    \/ loc[i].targets # <<>>
    \/ loc[i].log # <<>>

\* C23: the dispatcher runs for a post only if that post's record was
\* written, so every outbound send belongs to a post with a record in the
\* store.
C23_DispatchOnlyAfterSave ==
    \A i \in Invs :
        /\ Dispatching(i) => loc[i].saved = "ok"
        /\ HasAccepted(loc[i].log) => RowsOfPost(i) # {}

\* C24 as written: reply synthesis and dispatch run only with outbound
\* replies enabled.
C24_ReplyOnlyWhenOutboundEnabled ==
    \A i \in Invs :
        (loc[i].llmReplyText \/ Dispatching(i)) => cfg.autoReplyEnabled

\* C24 amended: the dispatcher runs only with outbound replies enabled;
\* reply synthesis runs for every post past the gate exactly when the LLM is
\* configured, whether outbound replies are enabled or not.
C24_DispatchOnlyWhenEnabled ==
    \A i \in Invs :
        /\ Dispatching(i) => cfg.autoReplyEnabled
        /\ loc[i].saved # "none" => (loc[i].llmReplyText <=> cfg.llmConfigured)

\* outbound replies are off, the LLM is configured: the reply was
\* synthesised and saved, nothing was dispatched
C24_Witness ==
    /\ ~ cfg.autoReplyEnabled /\ cfg.llmConfigured
    /\ \E i \in Invs :
          /\ pc[i] = "done" /\ loc[i].outcome = "completed" /\ loc[i].saved = "ok"
          /\ loc[i].llmReplyText
          /\ ~ Dispatching(i)
          /\ Len(uniqueTargets(Digest[cur[i]].mentions, Digest[cur[i]].links,
                               dmMaxPerPost)) > 0


(***************************************************************************)
(* The dispatch loop: C25, C26                                             *)
(***************************************************************************)
\* C25: in a dispatch loop the delay has elapsed before each target's
\* resolve/send, the first included, and the targets are handled one after
\* another in the order of the list.
C25_DelayBeforeEachTarget ==
    \A i \in Invs :
        /\ loc[i].delays = Len(loc[i].log) + (IF pc[i] = "dm_target" THEN 1 ELSE 0)
        /\ Dispatching(i) =>
              /\ Len(loc[i].log) + Len(loc[i].queue) = Len(loc[i].targets)
              /\ \A k \in 1..Len(loc[i].log) : loc[i].log[k].target = loc[i].targets[k]
              /\ \A k \in 1..Len(loc[i].queue) :
                    loc[i].queue[k] = loc[i].targets[Len(loc[i].log) + k]

\* the second target is about to be handled, after the second delay
C25_Witness ==
    \E i \in Invs :
        /\ pc[i] = "dm_target"
        /\ Len(loc[i].log) = 1 /\ loc[i].log[1].outcome = "sent"
        /\ loc[i].delays = 2

\* target k of the loop failed: its identity did not resolve or its send
\* was rejected
Failed(entry) == entry.outcome \in {"resolve-failed", "no-payload", "send-failed"}

\* C26 as written: a failed target does not end the loop, every target of
\* the list is attempted, and a success on a later target leaves the record
\* marked as sent.
C26_LaterSuccessMarksSent ==
    \A i \in Invs :
        (/\ pc[i] = "done" /\ loc[i].outcome = "completed" /\ loc[i].saved = "ok"
         /\ \E a, b \in 1..Len(loc[i].log) :
               a < b /\ Failed(loc[i].log[a]) /\ loc[i].log[b].accepted)
           => /\ Len(loc[i].log) = Len(loc[i].targets)
              /\ \E r \in RowsOfPost(i) : r.status = "sent" /\ r.dmSent

\* C26 amended: a failed target does not end the loop: when the loop is over
\* every target of the list has been attempted; a success on any target,
\* also after a failure, makes the run issue the status update, and an
\* update that succeeds leaves every record of the post marked as sent.
C26_FailureDoesNotEndLoop ==
    \A i \in Invs :
        /\ (pc[i] = "dm_update" \/ (pc[i] = "done" /\ Dispatching(i)))
              => Len(loc[i].log) = Len(loc[i].targets)
        /\ (pc[i] = "done" /\ HasAccepted(loc[i].log))
              => /\ loc[i].dmSent
                 /\ loc[i].update # "none"
                 /\ loc[i].update = "ok"
                       => \A r \in RowsOfPost(i) : r.status = "sent" /\ r.dmSent

\* the first target failed, the second was sent to, the record is sent
C26_Witness ==
    \E i \in Invs :
        /\ pc[i] = "done" /\ loc[i].saved = "ok" /\ loc[i].update = "ok"
        /\ Len(loc[i].log) >= 2
        /\ Failed(loc[i].log[1]) /\ loc[i].log[2].accepted
        /\ \E r \in RowsOfPost(i) : r.status = "sent" /\ r.dmSent


(***************************************************************************)
(* Contact resolution                                                      *)
(***************************************************************************)
\* a || b for optional strings: <<>> is undefined, << <<>> >> the empty string
orElse(a, b) == IF Falsy(a) THEN b ELSE a

\* deriveRecruiterContact: the publisher's username unless it is an excluded
\* channel handle, else what the text gives (textContact stands for the
\* 'Публикатор:' pattern, the first mention and the t.me links, in this order)
deriveRecruiterContact(textContact, publisherUsername) ==
    IF ~ Falsy(publisherUsername) /\ toLowerCase(publisherUsername[1]) \notin excludedMentions
    THEN publisherUsername
    ELSE textContact

\* the contact column of the saved vacancy: contact || fields.contact.
\* llm is "object" when extractFieldsWithLlm returned a result, else the
\* regex branches run
contactColumn(llm, llmContact, regexContact, textContact, publisherUsername) ==
    IF llm = "object"
    THEN LET c1 == orElse(llmContact, deriveRecruiterContact(textContact, publisherUsername))
             c2 == IF Falsy(c1) /\ ~ Falsy(regexContact) THEN regexContact ELSE c1
         IN  orElse(c2, llmContact)
    ELSE orElse(deriveRecruiterContact(textContact, publisherUsername), regexContact)

Amy == <<"@", "a", "m", "y">>

Bob == <<"@", "b", "o", "b">>

DevopsJobsMixedCase == <<"@","D","e","v","O","p","s","_","J","o","b","s">>

DevopsJobsFeed == <<"@","d","e","v","o","p","s","_","j","o","b","s","_","f","e","e","d">>

ContactInputs ==
    [fn : {"contact"},
     llm : {"object", "null", "threw", "off"},
     llmContact : {<<>>, << <<>> >>, <<Bob>>},
     regexContact : {<<>>, << <<"@", "c">> >>},
     textContact : {<<>>, << <<"@", "d">> >>},
     publisherUsername : {<<>>, <<Amy>>, <<DevopsJobsMixedCase>>, <<DevopsJobsFeed>>}]

EvalContact ==
    /\ arg.fn = "contact"
    /\ ret = <<>>
    /\ ret' = <<[contact |-> contactColumn(arg.llm, arg.llmContact, arg.regexContact,
                                           arg.textContact, arg.publisherUsername)]>>
    /\ UNCHANGED <<pipeVars, arg>>

InitContact ==
    /\ PipelineIdle
    /\ arg \in {a \in ContactInputs : a.llm # "object" => a.llmContact = <<>>}
    /\ ret = <<>>

NextContact == EvalContact

SpecContact == InitContact /\ [][NextContact]_vars

(***************************************************************************)
(* The author hint comes first: C27                                        *)
(***************************************************************************)
\* C27: when the publisher's username is available and is not an excluded
\* channel handle, the contact of the post is that username, ahead of any
\* contact taken from the text or returned by the AI extractor; an excluded
\* username is ignored.
C27_HintAheadOfTextContact ==
    (arg.fn = "contact" /\ ret # <<>>) =>
        IF ~ Falsy(arg.publisherUsername)
           /\ toLowerCase(arg.publisherUsername[1]) \notin excludedMentions
        THEN ret[1].contact = arg.publisherUsername
        ELSE ret[1].contact # arg.publisherUsername \/ Falsy(arg.publisherUsername)


(***************************************************************************)
(* The backfill sweep: runBackfill                                         *)
(***************************************************************************)
MaxChannels == 2

MaxLimit == 2

\* the history of a channel, newest first: message ids and ages in days
History == <<[id |-> 3, age |-> 1], [id |-> 2, age |-> 9], [id |-> 1, age |-> 12]>>

\* how a configured channel behaves during the sweep
\* "process-stalls": the pipeline call for the channel's post waits on the AI
\* service where no deadline covers it (AiExtractBodySettles, AiChatFetchSettles)
ChannelModes == {"ok", "resolve-throws", "iterate-throws", "process-throws",
                 "process-stalls"}

\* the since filter of the loop: sinceTs && msg.date && msg.date.getTime &&
\* msg.date.getTime() < sinceTs. dateType is what the client library hands
\* out as msg.date: a number (Unix seconds) or a Date
skippedBySince(sinceDays, dateType, age) ==
    sinceDays # <<>> /\ sinceDays[1] # 0 /\ dateType = "Date" /\ age > sinceDays[1]

SweepStart ==
    [pc |-> "channel", ch |-> 1, yielded |-> 0, inFlight |-> 0, started |-> 0,
     delays |-> 0, visited |-> {}, fed |-> {}, failures |-> 0]

\* the for-of over channelIdentifiers moves on
NextChannel(s) == [s EXCEPT !.pc = IF s.ch = Len(arg.channels) THEN "done" ELSE "channel",
                            !.ch = @ + 1, !.yielded = 0]

\* catch (e) { logger.warn(`Backfill failed for ${id}`) }: on to the next channel
SweepCatch(s) == NextChannel([s EXCEPT !.failures = @ + 1])

\* runBackfill returns at once without channels, else getEntity(id)
BackfillResolve ==
    /\ arg.fn = "backfill"
    /\ ret[1].pc = "channel"
    /\ LET s == [ret[1] EXCEPT !.visited = @ \cup {ret[1].ch}]
       IN  ret' = <<IF Len(arg.channels) = 0 THEN [ret[1] EXCEPT !.pc = "done"]
                    ELSE IF arg.channels[ret[1].ch] = "resolve-throws"
                    THEN SweepCatch(s)
                    ELSE [s EXCEPT !.pc = "iterate"]>>
    /\ UNCHANGED <<pipeVars, arg>>

\* the iterator of iterMessages(entity, { limit }) is asked for a message
BackfillIterate ==
    /\ arg.fn = "backfill"
    /\ ret[1].pc = "iterate"
    /\ LET s == ret[1]
           k == s.yielded + 1
       IN  ret' = <<IF arg.channels[s.ch] = "iterate-throws"
                    THEN SweepCatch(s)
                    ELSE IF k > arg.limit \/ k > Len(History)
                    THEN NextChannel(s)
                    ELSE IF skippedBySince(arg.sinceDays, arg.dateType, History[k].age)
                    THEN [s EXCEPT !.yielded = k]
                    ELSE [s EXCEPT !.yielded = k, !.pc = "process", !.inFlight = @ + 1,
                                   !.started = @ + 1,
                                   !.fed = @ \cup {[ch |-> s.ch, id |-> History[k].id,
                                                    age |-> History[k].age]}]>>
    /\ UNCHANGED <<pipeVars, arg>>

\* await this.processApiMessage(msg) settles
BackfillProcess ==
    /\ arg.fn = "backfill"
    /\ ret[1].pc = "process"
    /\ arg.channels[ret[1].ch] # "process-stalls"
    /\ LET s == [ret[1] EXCEPT !.inFlight = @ - 1]
       IN  ret' = <<IF arg.channels[s.ch] = "process-throws"
                    THEN SweepCatch(s)
                    ELSE [s EXCEPT !.pc = "delay"]>>
    /\ UNCHANGED <<pipeVars, arg>>

\* await this.delay(500)
BackfillDelay ==
    /\ arg.fn = "backfill"
    /\ ret[1].pc = "delay"
    /\ ret' = <<[ret[1] EXCEPT !.pc = "iterate", !.delays = @ + 1]>>
    /\ UNCHANGED <<pipeVars, arg>>

InitBackfill ==
    /\ PipelineIdle
    /\ arg \in [fn : {"backfill"},
                channels : UNION {[1..n -> ChannelModes] : n \in 0..MaxChannels},
                limit : 1..MaxLimit,
                sinceDays : {<<>>, <<7>>},
                dateType : {"number", "Date"}]
    /\ ret = <<SweepStart>>

NextBackfill == BackfillResolve \/ BackfillIterate \/ BackfillProcess \/ BackfillDelay

SpecBackfill == InitBackfill /\ [][NextBackfill]_vars

\* every await of the sweep that can settle does
SpecBackfillFair == SpecBackfill /\ WF_vars(NextBackfill)

(***************************************************************************)
(* The sweep over the channels, one post at a time: C29, C30               *)
(***************************************************************************)
\* C29: a failure while resolving or iterating one channel is logged and the
\* sweep goes on with the next channel; every configured channel is visited
\* and the sweep ends.
C29_SweepVisitsEveryChannel ==
    (arg.fn = "backfill" /\ ret[1].pc = "channel" /\ ret[1].ch = 1)
        ~> (ret[1].pc = "done" /\ ret[1].visited = 1..Len(arg.channels))

\* C30: the sweep has one pipeline call in flight at most, starts the next
\* one only after the previous call and the delay following it are over,
\* feeds at most the configured limit of posts per channel, and feeds none
\* older than the since-timestamp when one is configured.
C30_OneAtATimeWithinLimitAndAge ==
    arg.fn = "backfill" =>
        /\ ret[1].inFlight <= 1
        /\ ret[1].started <= ret[1].delays + ret[1].failures + 1
        /\ \A c \in 1..Len(arg.channels) :
              Cardinality({f \in ret[1].fed : f.ch = c}) <= arg.limit
        /\ arg.sinceDays # <<>> => \A f \in ret[1].fed : f.age <= arg.sinceDays[1]


(***************************************************************************)
(* The targets of the dispatch loop, from mentions and links               *)
(***************************************************************************)
MaxTokens == 2

\* "@devops_jobs", "@DevOps_Jobs_Feed", "@Bob", "https://t.me/devops_jobs",
\* "http://Telegram.me/Devops_Jobs_Feed"
TargetTokens ==
    { <<"@","d","e","v","o","p","s","_","j","o","b","s">>,
      <<"@","D","e","v","O","p","s","_","J","o","b","s","_","F","e","e","d">>,
      <<"@","B","o","b">>,
      <<"h","t","t","p","s",":","/","/","t",".","m","e","/","d","e","v","o","p","s","_","j","o","b","s">>,
      <<"h","t","t","p",":","/","/","T","e","l","e","g","r","a","m",".","m","e","/","D","e","v","o","p","s","_","J","o","b","s","_","F","e","e","d">> }

\* the texts of posts: up to MaxTokens tokens with a blank in between
RECURSIVE TargetTexts(_)
TargetTexts(n) ==
    IF n = 1 THEN TargetTokens
    ELSE TargetTexts(n - 1)
         \cup {a \o <<" ">> \o b : a \in TargetTexts(n - 1), b \in TargetTokens}

\* processApiMessage builds the digest, sendDmReplies the targets its loop visits
EvalTargets ==
    /\ arg.fn = "targets"
    /\ ret = <<>>
    /\ ret' = <<uniqueTargets(extractMentions(arg.text), extractLinks(arg.text),
                              dmMaxPerPostOf(arg.dmMaxRaw))>>
    /\ UNCHANGED <<pipeVars, arg>>

InitTargets ==
    /\ PipelineIdle
    /\ arg \in [fn : {"targets"}, text : TargetTexts(MaxTokens),
                dmMaxRaw : {<<>>, <<"1">>, <<"2">>}]
    /\ ret = <<>>

NextTargets == EvalTargets

SpecTargets == InitTargets /\ [][NextTargets]_vars

\* C36: no target of the dispatch loop is one of the channel's own handles,
\* @devops_jobs or @devops_jobs_feed, whether the post names the handle as an
\* @mention or as a t.me / telegram.me link.
C36_NoExcludedTarget ==
    (arg.fn = "targets" /\ ret # <<>>) =>
        \A k \in 1..Len(ret[1]) : ret[1][k] \notin excludedMentions

(***************************************************************************)
(* The channel-identity cache: isChannelAllowed and the backfill's fill    *)
(***************************************************************************)
MaxChecks == 3

MaxFills == 2

\* TELEGRAM_CHANNEL_IDS=@jobs, after the constructor's toLowerCase
JobsIdentifier == <<"@","j","o","b","s">>

\* the numeric id of channel @Jobs, and of a channel that is not configured
JobsPeerId == <<"1","0","0">>

OtherPeerId == <<"2","0","0">>

\* what client.getInputEntity(msg.peerId) gives for a post of peer p: it
\* throws, or a peer object with or without a username property
ResolveOutcomes(p) ==
    { [kind |-> "throws", username |-> <<>>, channelId |-> <<>>],
      [kind |-> "peer", username |-> <<>>, channelId |-> <<p>>],
      [kind |-> "peer",
        username |-> <<IF p = JobsPeerId THEN <<"J","o","b","s">> ELSE <<"X">>>>,
        channelId |-> <<p>>] }

\* Map.prototype.set
cacheSet(cache, k, v) == [x \in DOMAIN cache \cup {k} |-> IF x = k THEN v ELSE cache[x]]

\* Map.prototype.get(k) === v, for a non-empty v
cacheHas(cache, k, v) == k \in DOMAIN cache /\ cache[k] = v /\ v # <<>>

\* isChannelAllowed: the answer and the cache it leaves
isChannelAllowedCached(identifiers, cache, rawPeerIdStr, inputPeer) ==
    LET usernameIdentifiers == {u \in Range(identifiers) : startsWith(u, <<"@">>)}
        username == IF inputPeer.username = <<>> THEN <<>>
                    ELSE <<toLowerCase(<<"@">> \o inputPeer.username[1])>>
    IN  IF Len(identifiers) = 0 THEN [allowed |-> TRUE, cache |-> cache]
        ELSE IF \E u \in usernameIdentifiers : cacheHas(cache, u, rawPeerIdStr)
        THEN [allowed |-> TRUE, cache |-> cache]
        ELSE IF rawPeerIdStr \in Range(identifiers)
        THEN [allowed |-> TRUE, cache |-> cache]
        ELSE IF usernameIdentifiers = {} \/ inputPeer.kind = "throws"
        THEN [allowed |-> FALSE, cache |-> cache]
        ELSE IF username # <<>> /\ username[1] \in usernameIdentifiers
        THEN [allowed |-> TRUE, cache |-> cacheSet(cache, username[1], rawPeerIdStr)]
        ELSE IF inputPeer.channelId # <<>>
                /\ \E u \in usernameIdentifiers :
                      cacheHas(cache, u, inputPeer.channelId[1])
        THEN [allowed |-> TRUE, cache |-> cache]
        ELSE [allowed |-> FALSE, cache |-> cache]

\* a live post of peer p reaches the channel check of processApiMessage
LiveChannelCheck ==
    /\ arg.fn = "channel"
    /\ ret[1].checks < MaxChecks
    /\ \E p \in {JobsPeerId, OtherPeerId} : \E inputPeer \in ResolveOutcomes(p) :
        LET r == isChannelAllowedCached(arg.identifiers, ret[1].cache, p, inputPeer)
        IN  ret' = <<[ret[1] EXCEPT
                        !.cache = r.cache,
                        !.checks = @ + 1,
                        !.decisions = @ \cup {[peer |-> p, inputPeer |-> inputPeer,
                                               cached |-> ret[1].cache # <<>>,
                                               allowed |-> r.allowed]}]>>
    /\ UNCHANGED <<pipeVars, arg>>

\* runBackfill, for an identifier that starts with '@': the numeric id from
\* getInputEntity, else from the first message, else no entry
BackfillCacheFill ==
    /\ arg.fn = "channel"
    /\ arg.backfillOnStart
    /\ ret[1].fills < MaxFills
    /\ \E how \in {"input-entity", "first-message", "none"} :
        ret' = <<[ret[1] EXCEPT
                    !.fills = @ + 1,
                    !.cache = IF how = "none" THEN @
                              ELSE cacheSet(@, toLowerCase(arg.identifiers[1]),
                                            JobsPeerId)]>>
    /\ UNCHANGED <<pipeVars, arg>>

InitChannel ==
    /\ PipelineIdle
    /\ arg \in [fn : {"channel"}, identifiers : {<<JobsIdentifier>>},
                backfillOnStart : BOOLEAN]
    /\ ret = <<[cache |-> <<>>, checks |-> 0, fills |-> 0, decisions |-> {}]>>

NextChannelCheck == LiveChannelCheck \/ BackfillCacheFill

SpecChannel == InitChannel /\ [][NextChannelCheck]_vars

\* C33: for a channel configured by @username the answer of isChannelAllowed
\* for a post of that channel is the same before and after the cache entry
\* was written (given the same answer of the client library), and every write
\* of the entry leaves the same value.
C33_CacheRacesHarmless ==
    arg.fn = "channel" =>
        /\ \A d1, d2 \in ret[1].decisions :
              (d1.peer = d2.peer /\ d1.inputPeer = d2.inputPeer)
                  => d1.allowed = d2.allowed
        /\ \A u \in DOMAIN ret[1].cache : ret[1].cache[u] = JobsPeerId

(***************************************************************************)
(* The running counters: C37                                               *)
(***************************************************************************)
NoneInFlight == \A i \in Invs : pc[i] \in {"idle", "done"}

\* C37: whenever no invocation of processApiMessage is in flight,
\* totalProcessed = skippedNoKeyword + skippedDuplicate + successfullyProcessed,
\* under any interleaving of the live and the backfill invocations; and a post
\* counted in skippedNotAllowed is not counted in totalProcessed.
C37_CountersConserved ==
    /\ [](NoneInFlight =>
            stats.totalProcessed = stats.skippedNoKeyword + stats.skippedDuplicate
                                       + stats.successfullyProcessed)
    /\ [][stats'.skippedNotAllowed # stats.skippedNotAllowed
            => /\ stats'.skippedNotAllowed = stats.skippedNotAllowed + 1
               /\ stats'.totalProcessed = stats.totalProcessed]_vars

\* both producers have run and returned: one post counted as processed, one
\* delivery counted as a duplicate
C37_Witness ==
    /\ NoneInFlight
    /\ stats.totalProcessed = 2
    /\ stats.skippedDuplicate = 1
    /\ stats.successfullyProcessed = 1

(***************************************************************************)
(* Pipeline and admin bot side by side                                     *)
(***************************************************************************)
MaxAdminActions == 2

OpsStart ==
    [presses |-> 0, removed |-> {},
     admin |-> [pc |-> "idle", action |-> "none", vacancy |-> <<>>]]

\* case 'mark_sent' with the status assignment alone
adminAssignStatusOnly(vacancy, action) ==
    IF action = "mark_sent" THEN [vacancy EXCEPT !.status = "sent"]
    ELSE IF action = "mark_processed" THEN [vacancy EXCEPT !.status = "processed"]
    ELSE vacancy

\* case 'mark_sent' / 'mark_processed': the assignments to the loaded entity
adminAssign(vacancy, action) ==
    IF action = "mark_sent" THEN [vacancy EXCEPT !.status = "sent", !.dmSent = TRUE]
    ELSE IF action = "mark_processed"
    THEN [vacancy EXCEPT !.status = "processed", !.dmSent = FALSE]
    ELSE vacancy

\* vacancyRepository.save(vacancy) of a loaded entity: the row with its id
\* takes the entity's values, a missing row is inserted
adminSave(rows, vacancy) == {r \in rows : r.id # vacancy.id} \cup {vacancy}

\* vacancyRepository.remove(vacancy)
adminRemove(rows, vacancy) == {r \in rows : r.id # vacancy.id}

\* an inline button is pressed: await findOne({ where: { id } })
AdminLoad ==
    /\ arg.fn = "ops"
    /\ ret[1].admin.pc = "idle"
    /\ ret[1].presses < MaxAdminActions
    /\ \E action \in {"mark_sent", "mark_processed", "delete"}, id \in 1..nextId :
        LET found == findOne(vacancies, id)
        IN  ret' = <<[ret[1] EXCEPT
                        !.presses = @ + 1,
                        !.admin = IF found = {} THEN @
                                  ELSE [pc |-> "loaded", action |-> action,
                                        vacancy |-> <<CHOOSE r \in found : TRUE>>]]>>
    /\ UNCHANGED pipeVars
    /\ UNCHANGED arg

\* the handler's write: await save(vacancy) or await remove(vacancy)
AdminApply ==
    /\ arg.fn = "ops"
    /\ ret[1].admin.pc = "loaded"
    /\ LET a == ret[1].admin
           v == a.vacancy[1]
       IN  /\ vacancies' = IF a.action = "delete" THEN adminRemove(vacancies, v)
                           ELSE adminSave(vacancies, adminAssign(v, a.action))
           /\ ret' = <<[ret[1] EXCEPT
                          !.admin = OpsStart.admin,
                          !.removed = IF a.action = "delete"
                                      THEN @ \cup findOne(vacancies, v.id)
                                      ELSE @]>>
    /\ UNCHANGED <<cfg, now, redis, nextId, stats, pc, cur, loc, lastOk, feed, arg>>

InitOps ==
    /\ cfg = OpsConfig
    /\ feed = {"p1", "p2", "p4"}
    /\ now = 0
    /\ redis = <<>>
    /\ vacancies = {}
    /\ nextId = 1
    /\ stats = [totalProcessed |-> 0, skippedNoKeyword |-> 0, skippedDuplicate |-> 0,
                skippedNotAllowed |-> 0, successfullyProcessed |-> 0]
    /\ pc = [i \in Invs |-> "idle"]
    /\ cur = [i \in Invs |-> "p1"]
    /\ loc = [i \in Invs |-> Fresh]
    /\ lastOk = [p \in PostNames |-> -1]
    /\ arg = [fn |-> "ops"]
    /\ ret = <<OpsStart>>

NextOps ==
    \/ \E i \in Invs, p \in PostNames : Deliver(i, p)
    \/ \E i \in Invs : MarkProcessedOnce(i)
    \/ \E i \in Invs : ExtractFields(i)
    \/ \E i \in Invs : SaveVacancy(i)
    \/ \E i \in Invs : DmDelay(i)
    \/ \E i \in Invs : DmTarget(i)
    \/ \E i \in Invs : UpdateStatus(i)
    \/ \E i \in Invs : Return(i)
    \/ AdminLoad
    \/ AdminApply

SpecOps == InitOps /\ [][NextOps]_vars

(***************************************************************************)
(* Pipeline and restarts of the process                                    *)
(***************************************************************************)
MaxCrashes == 1

\* the awaits of processApiMessage that lie behind the gate, replies off
BehindGate == {"extract", "save"}

\* the process dies and is started again: Redis and the table stay, the
\* invocations in flight and the counters are gone
Crash ==
    /\ arg.fn = "restart"
    /\ ret[1].crashes < MaxCrashes
    /\ pc' = [i \in Invs |-> "idle"]
    /\ loc' = [i \in Invs |-> Fresh]
    /\ stats' = [totalProcessed |-> 0, skippedNoKeyword |-> 0, skippedDuplicate |-> 0,
                 skippedNotAllowed |-> 0, successfullyProcessed |-> 0]
    /\ ret' = <<[ret[1] EXCEPT
                   !.crashes = @ + 1,
                   !.cut = @ \cup {[post |-> cur[i], gate |-> loc[i].gate,
                                    at |-> loc[i].gateAt] :
                                      i \in {j \in Invs : pc[j] \in BehindGate}}]>>
    /\ UNCHANGED <<cfg, now, redis, vacancies, nextId, cur, lastOk, feed, arg>>

\* live handler and backfill on channel 100, replies off: sendDmReplies is
\* never called, so its steps are no part of NextRestart
InitRestart ==
    /\ cfg = [RaceConfig EXCEPT !.channelIdsRaw = <<"1","0","0">>]
    /\ feed = {"p1", "p2"}
    /\ now = 0
    /\ redis = <<>>
    /\ vacancies = {}
    /\ nextId = 1
    /\ stats = [totalProcessed |-> 0, skippedNoKeyword |-> 0, skippedDuplicate |-> 0,
                skippedNotAllowed |-> 0, successfullyProcessed |-> 0]
    /\ pc = [i \in Invs |-> "idle"]
    /\ cur = [i \in Invs |-> "p1"]
    /\ loc = [i \in Invs |-> Fresh]
    /\ lastOk = [p \in PostNames |-> -1]
    /\ arg = [fn |-> "restart"]
    /\ ret = <<[crashes |-> 0, cut |-> {}]>>

NextRestart ==
    \/ \E i \in Invs, p \in PostNames : Deliver(i, p)
    \/ \E i \in Invs : MarkProcessedOnce(i)
    \/ \E i \in Invs : ExtractFields(i)
    \/ \E i \in Invs : SaveVacancy(i)
    \/ \E i \in Invs : Return(i)
    \/ Tick
    \/ Crash

SpecRestart == InitRestart /\ [][NextRestart]_vars

(***************************************************************************)
(* Re-delivery after a restart: C31                                        *)
(***************************************************************************)
\* invocation i takes its gate step in this step
GateStep(i) == pc[i] = "gate" /\ pc'[i] # "gate" /\ ret' = ret

\* C31: when the process crashed after a post was admitted and before its
\* pipeline completed, every re-delivery of that post within the lease window
\* is rejected by the gate after the restart.
C31_RedeliveryRejectedAfterCrash ==
    [][\A i \in Invs :
          (/\ arg.fn = "restart"
           /\ GateStep(i)
           /\ \E c \in ret[1].cut : c.post = cur[i] /\ InWindow(c.at))
              => (pc'[i] = "done" /\ loc'[i].outcome = "duplicate")]_vars

\* C31, amended: the re-delivery is rejected when the interrupted run had
\* created the lease and the store call of the re-delivery succeeds.
C31_RejectedUnlessFailOpen ==
    [][\A i \in Invs :
          (/\ arg.fn = "restart"
           /\ GateStep(i)
           /\ loc'[i].gate # "error"
           /\ \E c \in ret[1].cut :
                 c.post = cur[i] /\ c.gate = "created" /\ InWindow(c.at))
              => (pc'[i] = "done" /\ loc'[i].outcome = "duplicate")]_vars

\* after the restart a re-delivery of the interrupted post was skipped
C31_Witness ==
    /\ arg.fn = "restart"
    /\ ret[1].crashes = 1
    /\ \E i \in Invs : \E c \in ret[1].cut :
          /\ c.post = cur[i] /\ c.gate = "created" /\ InWindow(c.at)
          /\ pc[i] = "done" /\ loc[i].outcome = "duplicate"

(***************************************************************************)
(* Two fail-open runs of one post both dispatch: C32                       *)
(***************************************************************************)
\* invocation i was admitted fail-open and is past its save
FailOpenPastSave(i) == loc[i].gate = "error" /\ loc[i].saved # "none"

\* C32: nothing deduplicates at the outbound layer: with dispatch enabled and
\* no dry run, every delivery admitted fail-open enters its own dispatch loop
\* over the post's targets whatever its save answered, while the unique pair
\* lets at most one record of the post exist.
C32_EachFailOpenRunDispatches ==
    arg.fn = "ops" =>
        /\ \A i \in Invs :
              (FailOpenPastSave(i) /\ Digest[cur[i]].mentions # <<>>)
                  => /\ loc[i].targets = uniqueTargets(Digest[cur[i]].mentions,
                                                       Digest[cur[i]].links, dmMaxPerPost)
                     /\ loc[i].targets # <<>>
        /\ UniquePair(vacancies)

\* the live and the backfill delivery of one post were both admitted
\* fail-open and both sent to the same target; one record exists
C32_Witness ==
    /\ arg.fn = "ops"
    /\ cur["live"] = cur["backfill"]
    /\ \A i \in Invs : loc[i].gate = "error"
    /\ \E k1 \in 1..Len(loc["live"].log), k2 \in 1..Len(loc["backfill"].log) :
          /\ loc["live"].log[k1].accepted /\ loc["backfill"].log[k2].accepted
          /\ loc["live"].log[k1].target = loc["backfill"].log[k2].target
    /\ Cardinality(rowsOf(vacancies, PostTable[cur["live"]].peerId,
                          PostTable[cur["live"]].messageId)) = 1

(***************************************************************************)
(* Status and dmSent move together: C34                                    *)
(***************************************************************************)
\* C34: under every interleaving of the pipeline's writes (create, status
\* update of the dispatcher) and the admin actions mark_sent and
\* mark_processed, a record has dmSent = true exactly when its status is 'sent'.
C34_SentFlagMatchesStatus ==
    arg.fn = "ops" => \A r \in vacancies : r.dmSent <=> (r.status = "sent")

\* the dispatcher's update landed between the admin handler's findOne and its
\* save: the loaded entity is still 'processed', the row already 'sent'
C34_Witness ==
    /\ arg.fn = "ops"
    /\ ret[1].admin.pc = "loaded"
    /\ ret[1].admin.action \in {"mark_sent", "mark_processed"}
    /\ ret[1].admin.vacancy[1].status = "processed"
    /\ \E r \in vacancies : r.id = ret[1].admin.vacancy[1].id /\ r.status = "sent"
                            /\ r.dmSent

(***************************************************************************)
(* Skips before the counters: C35                                          *)
(***************************************************************************)
\* C35: a call that ends because the post has no text or its channel is not
\* allowed changes nothing but the not-allowed counter: no lease, no record,
\* no message, so nothing stands in the way of a later admission of the post.
C35_SkipLeavesStateAlone ==
    [][\A i \in Invs :
          (/\ arg.fn = "ops"
           /\ pc[i] = "idle" /\ pc'[i] = "done"
           /\ loc'[i].outcome \in {"no-text", "not-allowed"})
              => /\ redis' = redis /\ lastOk' = lastOk
                 /\ vacancies' = vacancies /\ nextId' = nextId
                 /\ loc'[i].log = <<>> /\ loc'[i].gate = "none"
                 /\ stats' = [stats EXCEPT !.skippedNotAllowed =
                                 IF loc'[i].outcome = "not-allowed" THEN @ + 1 ELSE @]]_vars

\* one call ended on a post without text, the other on a channel that is not
\* allowed, and neither left a lease or a record
C35_Witness ==
    /\ arg.fn = "ops"
    /\ \E i, j \in Invs :
          /\ pc[i] = "done" /\ loc[i].outcome = "no-text"
          /\ pc[j] = "done" /\ loc[j].outcome = "not-allowed"
    /\ stats.skippedNotAllowed = 1 /\ stats.totalProcessed = 0
    /\ redis = <<>> /\ vacancies = {}

(***************************************************************************)
(* A record deleted by the admin: C38                                      *)
(***************************************************************************)
\* the admin has deleted a record of the post invocation i works on
Deleted(i) ==
    \E r \in ret[1].removed :
        r.channelId = Post(i).peerId /\ r.messageId = Post(i).messageId

LeasePresent(i) == redisLive(redis, redisKey(Post(i).peerId, Post(i).messageId), now)

\* C38: after an admin delete of a post's record no step of the pipeline
\* creates a record for the pair again while the post's lease is present, and
\* a status update of the dispatcher that comes after the delete affects no
\* row.
C38_NoRecordAfterDelete ==
    [][\A i \in Invs :
          (arg.fn = "ops" /\ ret' = ret /\ Deleted(i) /\ RowsOfPost(i) = {})
              => /\ LeasePresent(i)
                    => rowsOf(vacancies', Post(i).peerId, Post(i).messageId) = {}
                 /\ pc[i] = "dm_update" /\ pc'[i] # "dm_update"
                    => vacancies' = vacancies]_vars

\* C38, amended: after the delete a delivery that reaches the gate while the
\* lease is present and whose store call succeeds is skipped as a duplicate,
\* and a status update that comes after the delete affects no row.
C38_LaterDeliverySkipped ==
    [][\A i \in Invs :
          (arg.fn = "ops" /\ Deleted(i) /\ RowsOfPost(i) = {})
              => /\ (GateStep(i) /\ LeasePresent(i) /\ loc'[i].gate # "error")
                    => /\ pc'[i] = "done" /\ loc'[i].outcome = "duplicate"
                       /\ vacancies' = vacancies
                 /\ pc[i] = "dm_update" /\ pc'[i] # "dm_update"
                    => vacancies' = vacancies]_vars

\* the record was deleted while still 'processed'; afterwards the run that
\* had written it issued its status update, and the other delivery was
\* skipped as a duplicate; the table holds no record of the post
C38_Witness ==
    /\ arg.fn = "ops"
    /\ ret[1].presses = 1
    /\ \E i, j \in Invs :
          /\ i # j /\ cur[i] = cur[j]
          /\ Deleted(i) /\ RowsOfPost(i) = {}
          /\ \A r \in ret[1].removed : r.status = "processed"
          /\ pc[i] = "done" /\ loc[i].saved = "ok" /\ loc[i].update = "ok"
          /\ pc[j] = "done" /\ loc[j].outcome = "duplicate"

====
